---- MODULE Spec2Model ----
(***************************************************************************)
(* Model of tour-insights-dashboard.py: a batch script that loads five CSV *)
(* tables for each of four months, joins them, and computes per-month and  *)
(* cross-month metrics.  The script is a straight line of sections; the    *)
(* model follows it with a program counter.                                *)
(*                                                                         *)
(* Encoding of values:                                                     *)
(*   text      a sequence of one-character strings, <<"A","n">> is "An"    *)
(*   NaNText   the missing text value (pandas NaN in an object column)     *)
(*   NaNInt    the missing number or date (pandas NaN / NaT)               *)
(*   dates     day ordinals, 1 is 2025-03-01 of the March files            *)
(*   DataFrame [cols |-> set of column names, rows |-> sequence of rows],  *)
(*             a row is a function from the column names to values         *)
(*   Series    a sequence of [key |-> k, val |-> v] in index order         *)
(***************************************************************************)
EXTENDS Integers, Sequences, FiniteSets, TLC

VARIABLES
    csv,                      \* the files on disk: month -> table name -> DataFrame as written
    missing,                  \* months for which a file is absent
    ties,                     \* how the sort in use arranges entries of equal value
    pc,                       \* index of the next script section in Script
    raised,                   \* "none", or the exception that ended the run
    diagnostics,              \* warnings / messages the run has emitted
    bookings, tours, guides, availability, skills,   \* month -> loaded DataFrame
    bookings_tours,           \* month -> DataFrame
    bookings_merged,          \* month -> DataFrame
    skills_named,             \* month -> DataFrame
    top_tours,                \* Series, overwritten by each INSIGHT 1.x
    daily_bookings,           \* Series, overwritten by each INSIGHT 2.x
    combined_daily_bookings,  \* month -> Series (INSIGHT 2.5)
    top_guides,               \* month -> Series   (top_guides_03_2025 ...)
    availability_days_guides, \* month -> DataFrame
    valid_avail,              \* month -> DataFrame (valid_avail_03 ...)
    available_days_per_guide, \* month -> Series   (available_days_per_guide_03 ...)
    merged,                   \* INSIGHT 5.5 table
    not_available,            \* month -> Series   (not_available_03_2025 ...)
    occupied_days,            \* month -> Series   (occupied_days_03_2025 ...)
    occupancy_table,          \* month -> sequence of stats rows
    top_skilled_guides,       \* month -> Series   (top_skilled_guides_03_2025 ...)
    location_totals,          \* month -> Series   (location_totals_03_2025 ...)
    location_days_combined,   \* INSIGHT 10.5 table
    slot_counts,              \* month -> DataFrame (slot_counts_03_2025 ...)
    top_slot                  \* month -> DataFrame (top_slot_03_2025 ...)

vars == <<csv, missing, ties, pc, raised, diagnostics, bookings, tours, guides,
          availability, skills, bookings_tours, bookings_merged, skills_named,
          top_tours, daily_bookings, combined_daily_bookings, top_guides,
          availability_days_guides, valid_avail,
          available_days_per_guide, merged, not_available, occupied_days,
          occupancy_table, top_skilled_guides, location_totals,
          location_days_combined, slot_counts, top_slot>>

----------------------------------------------------------------------------
(* Program constants *)

MONTHS == <<"03", "04", "05", "06">>

MonthSet == {MONTHS[i] : i \in 1..Len(MONTHS)}

TopN == 10

\* calendar.monthrange(YEAR, k)[1] for the four hard-coded months of 2025
DaysInMonth(m) ==
    CASE m = "03" -> 31
      [] m = "04" -> 30
      [] m = "05" -> 31
      [] m = "06" -> 30

NaNInt == -1000000

NaNText == <<"NaN">>

NaNSlot == "NaN"

columns_to_standardize ==
    {"GuideName", "GuideLocation", "TimeStart", "TimeEnd", "TourName", "TourLocation"}

week_cols ==
    {"Op_Monday", "Op_Tuesday", "Op_Wednesday", "Op_Thursday", "Op_Friday",
     "Op_Saturday", "Op_Sunday"}

\* the missing value of a column, by the column's type
NullOf(c) ==
    IF c \in columns_to_standardize THEN NaNText
    ELSE IF c = "GuideAvailability" THEN NaNSlot
    ELSE NaNInt

----------------------------------------------------------------------------
(* Text: str.strip("'\" ") and str.title() *)

Lowers == <<"a","b","c","d","e","f","g","h","i","j","k","l","m",
            "n","o","p","q","r","s","t","u","v","w","x","y","z">>

Uppers == <<"A","B","C","D","E","F","G","H","I","J","K","L","M",
            "N","O","P","Q","R","S","T","U","V","W","X","Y","Z">>

\* code-point order of the characters the model uses
Alphabet == <<" ", "\"", "'", "-", "0","1","2","3","4","5","6","7","8","9", ":">>
            \o Uppers \o Lowers

PosIn(seq, c) == IF \E i \in 1..Len(seq) : seq[i] = c
                 THEN CHOOSE i \in 1..Len(seq) : seq[i] = c
                 ELSE 0

IsLetter(c) == PosIn(Lowers, c) > 0 \/ PosIn(Uppers, c) > 0

ToUpper(c) == IF PosIn(Lowers, c) > 0 THEN Uppers[PosIn(Lowers, c)] ELSE c

ToLower(c) == IF PosIn(Uppers, c) > 0 THEN Lowers[PosIn(Uppers, c)] ELSE c

StripChars == {"'", "\"", " "}

RECURSIVE LStrip(_)
LStrip(s) == IF s # <<>> /\ Head(s) \in StripChars THEN LStrip(Tail(s)) ELSE s

RECURSIVE RStrip(_)
RStrip(s) == IF s # <<>> /\ s[Len(s)] \in StripChars
             THEN RStrip(SubSeq(s, 1, Len(s) - 1))
             ELSE s

Strip(s) == RStrip(LStrip(s))

\* str.title(): a letter after a non-letter is upper-cased, after a letter lower-cased
Title(s) == [i \in 1..Len(s) |->
                IF i = 1 \/ ~IsLetter(s[i - 1]) THEN ToUpper(s[i]) ELSE ToLower(s[i])]

\* a conversion that leaves the missing value missing
AsTypeStrKeepsNull(v) == v

\* astype(str): NaN becomes the text "nan"
AsTypeStr(v) == IF v = NaNText THEN <<"n","a","n">> ELSE v

\* a normalization that title-cases without stripping
StandardizeNoStrip(v) == Title(AsTypeStr(v))

\* astype(str).str.strip("'\" ").str.title()
Standardize(v) == Title(Strip(AsTypeStr(v)))

\* lexicographic order of texts by code point (the order groupby and merge sort keys in)
RECURSIVE TextLess(_, _)
TextLess(a, b) ==
    IF b = <<>> THEN FALSE
    ELSE IF a = <<>> THEN TRUE
    ELSE IF Head(a) = Head(b) THEN TextLess(Tail(a), Tail(b))
    ELSE PosIn(Alphabet, Head(a)) < PosIn(Alphabet, Head(b))

----------------------------------------------------------------------------
(* Sequences and Series *)

Range(s) == {s[i] : i \in 1..Len(s)}

Head10(s) == SubSeq(s, 1, IF Len(s) < TopN THEN Len(s) ELSE TopN)

Keys(series) == {series[i].key : i \in 1..Len(series)}

HasKey(series, k) == \E i \in 1..Len(series) : series[i].key = k

ValueAt(series, k) == series[CHOOSE i \in 1..Len(series) : series[i].key = k].val

\* the texts of a set in ascending lexicographic order
RECURSIVE SortedTexts(_)
SortedTexts(S) ==
    IF S = {} THEN <<>>
    ELSE LET least == CHOOSE x \in S : \A y \in S \ {x} : TextLess(x, y)
         IN  <<least>> \o SortedTexts(S \ {least})

RECURSIVE InsertDesc(_, _)
InsertDesc(sorted, e) ==
    IF sorted = <<>> THEN <<e>>
    ELSE IF Head(sorted).val >= e.val THEN <<Head(sorted)>> \o InsertDesc(Tail(sorted), e)
    ELSE <<e>> \o sorted

\* an insertion sort, largest value first, that keeps equal values in their order
RECURSIVE StableDesc(_)
StableDesc(series) ==
    IF series = <<>> THEN <<>>
    ELSE InsertDesc(StableDesc(SubSeq(series, 1, Len(series) - 1)),
                    series[Len(series)])

Reverse(s) == [i \in 1..Len(s) |-> s[Len(s) + 1 - i]]

\* the arrangements of equal values that are modelled: in their order, in reverse order
TieOrders == {"kept", "reversed"}

\* sort_values(ascending=False) with the default kind="quicksort", which is not a
\* stable sort: the result is in descending order, and where entries of equal value
\* end up is left to the sort in use
SortValuesDesc(series) ==
    IF ties = "kept" THEN StableDesc(series) ELSE StableDesc(Reverse(series))

\* the numbers of a set in ascending order
RECURSIVE Ascending(_)
Ascending(S) ==
    IF S = {} THEN <<>>
    ELSE LET least == CHOOSE x \in S : \A y \in S : x <= y
         IN  <<least>> \o Ascending(S \ {least})

\* series.sort_index() of a Series indexed by dates
SortIndex(series) ==
    LET ks == Ascending(Keys(series))
    IN  [i \in 1..Len(ks) |-> [key |-> ks[i], val |-> ValueAt(series, ks[i])]]

IsDescending(series) ==
    \A i \in 1..Len(series) : \A j \in 1..Len(series) :
        i < j => series[i].val >= series[j].val

----------------------------------------------------------------------------
(* DataFrame operations *)

EmptyFrame == [cols |-> {}, rows |-> <<>>]

Column(df, c) == [i \in 1..Len(df.rows) |-> df.rows[i][c]]

\* pandas appends _x / _y to a column both sides carry; "id" is the only such column
SuffixX(c) == IF c = "id" THEN "id_x" ELSE c

SuffixY(c) == IF c = "id" THEN "id_y" ELSE c

Overlap(left, right, left_on, right_on) ==
    (left.cols \cap right.cols) \ (IF left_on = right_on THEN {left_on} ELSE {})

LeftName(c, ov) == IF c \in ov THEN SuffixX(c) ELSE c

RightName(c, ov) == IF c \in ov THEN SuffixY(c) ELSE c

MergedCols(left, right, ov) ==
    {LeftName(c, ov) : c \in left.cols} \cup {RightName(c, ov) : c \in right.cols}

NullRow(cols) == [c \in cols |-> NullOf(c)]

MergedRow(l, r, left, right, ov) ==
    [c \in MergedCols(left, right, ov) |->
        IF \E lc \in left.cols : LeftName(lc, ov) = c
        THEN l[CHOOSE lc \in left.cols : LeftName(lc, ov) = c]
        ELSE r[CHOOSE rc \in right.cols : RightName(rc, ov) = c]]

MatchesOf(v, df, on) ==
    LET Hit(r) == r[on] = v IN SelectSeq(df.rows, Hit)

RECURSIVE LeftJoinRows(_, _, _, _, _, _)
LeftJoinRows(lrows, left, right, left_on, right_on, ov) ==
    IF lrows = <<>> THEN <<>>
    ELSE LET l  == Head(lrows)
             ms == MatchesOf(l[left_on], right, right_on)
             out == IF ms = <<>>
                    THEN <<MergedRow(l, NullRow(right.cols), left, right, ov)>>
                    ELSE [i \in 1..Len(ms) |-> MergedRow(l, ms[i], left, right, ov)]
         IN  out \o LeftJoinRows(Tail(lrows), left, right, left_on, right_on, ov)

RECURSIVE InnerJoinRows(_, _, _, _, _, _)
InnerJoinRows(lrows, left, right, left_on, right_on, ov) ==
    IF lrows = <<>> THEN <<>>
    ELSE LET l  == Head(lrows)
             ms == MatchesOf(l[left_on], right, right_on)
         IN  [i \in 1..Len(ms) |-> MergedRow(l, ms[i], left, right, ov)]
             \o InnerJoinRows(Tail(lrows), left, right, left_on, right_on, ov)

\* a left merge that drops the rows without a match (how="inner")
MergeInner(left, right, left_on, right_on) ==
    LET ov == Overlap(left, right, left_on, right_on)
    IN  [cols |-> MergedCols(left, right, ov),
         rows |-> InnerJoinRows(left.rows, left, right, left_on, right_on, ov)]

\* left.merge(right, left_on=..., right_on=..., how="left")
MergeLeft(left, right, left_on, right_on) ==
    LET ov == Overlap(left, right, left_on, right_on)
    IN  [cols |-> MergedCols(left, right, ov),
         rows |-> LeftJoinRows(left.rows, left, right, left_on, right_on, ov)]

\* df.rename(columns=mapping) for a mapping given as a function on column names
Rename(df, old, new) ==
    IF old \notin df.cols THEN df
    ELSE LET cols == (df.cols \ {old}) \cup {new}
         IN  [cols |-> cols,
              rows |-> [i \in 1..Len(df.rows) |->
                          [c \in cols |-> IF c = new THEN df.rows[i][old]
                                          ELSE df.rows[i][c]]]]

\* the values of a sequence not in seen, each once, in order of first appearance
RECURSIVE FirstSeen(_, _)
FirstSeen(vals, seen) ==
    IF vals = <<>> THEN <<>>
    ELSE IF Head(vals) \in seen
         THEN FirstSeen(Tail(vals), seen)
         ELSE <<Head(vals)>> \o FirstSeen(Tail(vals), seen \cup {Head(vals)})

CountOf(df, c, v) == Cardinality({i \in 1..Len(df.rows) : df.rows[i][c] = v})

\* counts that give the missing value an entry of its own
ValueCountsWithNull(df, c) ==
    LET ks == FirstSeen(Column(df, c), {})
    IN  SortValuesDesc([i \in 1..Len(ks) |-> [key |-> ks[i], val |-> CountOf(df, c, ks[i])]])

\* df[c].value_counts(): one entry per non-missing value, largest count first
ValueCounts(df, c) ==
    LET ks == FirstSeen(Column(df, c), {NullOf(c)})
    IN  SortValuesDesc([i \in 1..Len(ks) |-> [key |-> ks[i], val |-> CountOf(df, c, ks[i])]])

GroupKeys(df, by) == SortedTexts(Range(Column(df, by)) \ {NaNText})

DistinctIn(df, by, k, c) ==
    {df.rows[i][c] : i \in {j \in 1..Len(df.rows) : df.rows[j][by] = k}} \ {NaNInt}

\* df.groupby(by)[c].nunique(): keys ascending, missing values of c not counted
GroupNUnique(df, by, c) ==
    LET ks == GroupKeys(df, by)
    IN  [i \in 1..Len(ks) |-> [key |-> ks[i], val |-> Cardinality(DistinctIn(df, by, ks[i], c))]]

RECURSIVE SumWhere(_, _, _, _)
SumWhere(rows, by, k, c) ==
    IF rows = <<>> THEN 0
    ELSE (IF Head(rows)[by] = k /\ Head(rows)[c] # NaNInt THEN Head(rows)[c] ELSE 0)
         + SumWhere(Tail(rows), by, k, c)

\* df.groupby(by)[c].sum()
GroupSum(df, by, c) ==
    LET ks == GroupKeys(df, by)
    IN  [i \in 1..Len(ks) |-> [key |-> ks[i], val |-> SumWhere(df.rows, by, ks[i], c)]]

RECURSIVE SumCols(_, _)
SumCols(row, cols) ==
    IF cols = {} THEN 0
    ELSE LET c == CHOOSE x \in cols : TRUE
         IN  (IF row[c] # NaNInt THEN row[c] ELSE 0) + SumCols(row, cols \ {c})

\* df[name] = vals (assignment of a column, in place): vals[i] is the value of row i
WithColumn(df, name, vals) ==
    LET cols == df.cols \cup {name}
    IN  [cols |-> cols,
         rows |-> [i \in 1..Len(df.rows) |->
                     [c \in cols |-> IF c = name THEN vals[i] ELSE df.rows[i][c]]]]

\* series.reset_index(name=value_name) of a Series whose index is called index_name
ResetIndex(series, index_name, value_name) ==
    [cols |-> {index_name, value_name},
     rows |-> [i \in 1..Len(series) |->
                 [c \in {index_name, value_name} |->
                     IF c = index_name THEN series[i].key ELSE series[i].val]]]

RECURSIVE OuterRows(_, _, _, _)
OuterRows(ks, left, right, on) ==
    IF ks = <<>> THEN <<>>
    ELSE LET k  == Head(ks)
             ls == MatchesOf(k, left, on)
             rs == MatchesOf(k, right, on)
             lx == IF ls = <<>> THEN <<[NullRow(left.cols) EXCEPT ![on] = k]>> ELSE ls
             rx == IF rs = <<>> THEN <<[NullRow(right.cols) EXCEPT ![on] = k]>> ELSE rs
             ov == Overlap(left, right, on, on)
             out == [n \in 1..(Len(lx) * Len(rx)) |->
                        MergedRow(lx[((n - 1) \div Len(rx)) + 1],
                                  rx[((n - 1) % Len(rx)) + 1], left, right, ov)]
         IN  out \o OuterRows(Tail(ks), left, right, on)

\* a merge on a shared key that keeps only the keys both sides have (how="inner")
MergeInnerOn(left, right, on) ==
    LET both == {k \in Range(Column(left, on)) : k \in Range(Column(right, on))}
    IN  [cols |-> MergedCols(left, right, Overlap(left, right, on, on)),
         rows |-> OuterRows(SortedTexts(both), left, right, on)]

\* pd.merge(left, right, on=key, how="outer"): keys of either side, sorted
MergeOuter(left, right, on) ==
    LET ks == SortedTexts(Range(Column(left, on)) \cup Range(Column(right, on)))
    IN  [cols |-> MergedCols(left, right, Overlap(left, right, on, on)),
         rows |-> OuterRows(ks, left, right, on)]

\* df.fillna(0)
FillNa0(df) ==
    [cols |-> df.cols,
     rows |-> [i \in 1..Len(df.rows) |->
                 [c \in df.cols |->
                     IF df.rows[i][c] = NullOf(c) THEN 0 ELSE df.rows[i][c]]]]

----------------------------------------------------------------------------
(* The script *)

TableNames == {"bookings", "tours", "guides", "availability", "skills"}

\* pd.read_csv: an empty field is read as missing
ReadField(c, v) == IF c = "GuideAvailability" /\ v = "" THEN NaNSlot ELSE v

\* one table of load_month_data: read, then standardize the text columns
LoadTable(file) ==
    [cols |-> file.cols,
     rows |-> [i \in 1..Len(file.rows) |->
                 [c \in file.cols |->
                     IF c \in columns_to_standardize
                     THEN Standardize(file.rows[i][c])
                     ELSE ReadField(c, file.rows[i][c])]]]

load_month_data(m) == [t \in TableNames |-> LoadTable(csv[m][t])]

\* the sections of the script in source order; m is the month a section is written for
Script ==
    <<[sec |-> "load", m |-> "all"],
      [sec |-> "bookings_tours", m |-> "all"],
      [sec |-> "bookings_merged", m |-> "all"],
      [sec |-> "rename", m |-> "all"],
      [sec |-> "skills_named", m |-> "all"]>>
    \o [i \in 1..4 |-> [sec |-> "1", m |-> MONTHS[i]]]
    \o [i \in 1..4 |-> [sec |-> "2", m |-> MONTHS[i]]]
    \o <<[sec |-> "2.5", m |-> "all"]>>
    \o [i \in 1..4 |-> [sec |-> "3", m |-> MONTHS[i]]]
    \o <<[sec |-> "4.0", m |-> "all"]>>
    \o [i \in 1..4 |-> [sec |-> "4", m |-> MONTHS[i]]]
    \o [i \in 1..4 |-> [sec |-> "5", m |-> MONTHS[i]]]
    \o <<[sec |-> "5.5", m |-> "all"]>>
    \o [i \in 1..4 |-> [sec |-> "6", m |-> MONTHS[i]]]
    \o [i \in 1..4 |-> [sec |-> "7", m |-> MONTHS[i]]]
    \o [i \in 1..4 |-> [sec |-> "8", m |-> MONTHS[i]]]
    \o [i \in 1..4 |-> [sec |-> "9", m |-> MONTHS[i]]]
    \o [i \in 1..4 |-> [sec |-> "10", m |-> MONTHS[i]]]
    \o <<[sec |-> "10.5", m |-> "all"]>>
    \o [i \in 1..4 |-> [sec |-> "11", m |-> MONTHS[i]]]

At(sec) == raised = "none" /\ pc <= Len(Script) /\ Script[pc].sec = sec

Done(sec, m) ==
    \E i \in 1..Len(Script) : Script[i].sec = sec /\ Script[i].m = m /\ i < pc

Finished == pc > Len(Script)

NoFrames == [m \in MonthSet |-> EmptyFrame]

NoSeries == [m \in MonthSet |-> <<>>]

\* lines 80-95: all_data and the five per-type dictionaries; a missing file ends the run
Load ==
    /\ At("load")
    /\ IF missing # {}
       THEN /\ raised' = "FileNotFoundError"
            /\ UNCHANGED <<pc, bookings, tours, guides, availability, skills>>
       ELSE /\ bookings' = [m \in MonthSet |-> load_month_data(m)["bookings"]]
            /\ tours' = [m \in MonthSet |-> load_month_data(m)["tours"]]
            /\ guides' = [m \in MonthSet |-> load_month_data(m)["guides"]]
            /\ availability' = [m \in MonthSet |-> load_month_data(m)["availability"]]
            /\ skills' = [m \in MonthSet |-> load_month_data(m)["skills"]]
            /\ pc' = pc + 1
            /\ UNCHANGED raised
    /\ UNCHANGED <<csv, missing, ties, daily_bookings, combined_daily_bookings,
                   top_guides, top_skilled_guides, slot_counts, top_slot,
                   diagnostics, bookings_tours, bookings_merged,
                   skills_named, top_tours, availability_days_guides, valid_avail,
                   available_days_per_guide, merged, not_available, occupied_days,
                   occupancy_table, location_totals, location_days_combined>>

MergeTours(m) == MergeLeft(bookings[m], tours[m], "TourID", "id")

\* lines 98-104
BookingsTours ==
    /\ At("bookings_tours")
    /\ bookings_tours' = [m \in MonthSet |-> MergeTours(m)]
    /\ pc' = pc + 1
    /\ UNCHANGED <<csv, missing, ties, daily_bookings, combined_daily_bookings,
                   top_guides, top_skilled_guides, slot_counts, top_slot,
                   raised, diagnostics, bookings, tours, guides,
                   availability, skills, bookings_merged, skills_named, top_tours,
                   availability_days_guides, valid_avail, available_days_per_guide,
                   merged, not_available, occupied_days, occupancy_table,
                   location_totals, location_days_combined>>

\* a join of every month's bookings with the guides of March
MergeGuidesOfMarch(m) == MergeLeft(bookings_tours[m], guides["03"], "GuideID", "id")

MergeGuides(m) == MergeLeft(bookings_tours[m], guides[m], "GuideID", "id")

\* lines 107-114
BookingsMerged ==
    /\ At("bookings_merged")
    /\ bookings_merged' = [m \in MonthSet |-> MergeGuides(m)]
    /\ pc' = pc + 1
    /\ UNCHANGED <<csv, missing, ties, daily_bookings, combined_daily_bookings,
                   top_guides, top_skilled_guides, slot_counts, top_slot,
                   raised, diagnostics, bookings, tours, guides,
                   availability, skills, bookings_tours, skills_named, top_tours,
                   availability_days_guides, valid_avail, available_days_per_guide,
                   merged, not_available, occupied_days, occupancy_table,
                   location_totals, location_days_combined>>

rename_cols(df) == Rename(Rename(df, "id_x", "TourID_Source"), "id_y", "GuideID_Source")

\* lines 116-125
RenameIds ==
    /\ At("rename")
    /\ bookings_merged' = [m \in MonthSet |-> rename_cols(bookings_merged[m])]
    /\ pc' = pc + 1
    /\ UNCHANGED <<csv, missing, ties, daily_bookings, combined_daily_bookings,
                   top_guides, top_skilled_guides, slot_counts, top_slot,
                   raised, diagnostics, bookings, tours, guides,
                   availability, skills, bookings_tours, skills_named, top_tours,
                   availability_days_guides, valid_avail, available_days_per_guide,
                   merged, not_available, occupied_days, occupancy_table,
                   location_totals, location_days_combined>>

\* lines 127-134
SkillsNamed ==
    /\ At("skills_named")
    /\ skills_named' = [m \in MonthSet |-> MergeLeft(skills[m], guides[m], "GuideID", "id")]
    /\ pc' = pc + 1
    /\ UNCHANGED <<csv, missing, ties, daily_bookings, combined_daily_bookings,
                   top_guides, top_skilled_guides, slot_counts, top_slot,
                   raised, diagnostics, bookings, tours, guides,
                   availability, skills, bookings_tours, bookings_merged, top_tours,
                   availability_days_guides, valid_avail, available_days_per_guide,
                   merged, not_available, occupied_days, occupancy_table,
                   location_totals, location_days_combined>>

TourCounts(m) == Head10(ValueCounts(bookings_tours[m], "TourName"))

\* INSIGHT 1.1 - 1.4 (lines 139-141, 171-173, 203-205, 235-237)
TopBookedTours ==
    /\ At("1")
    /\ top_tours' = TourCounts(Script[pc].m)
    /\ pc' = pc + 1
    /\ UNCHANGED <<csv, missing, ties, daily_bookings, combined_daily_bookings,
                   top_guides, top_skilled_guides, slot_counts, top_slot,
                   raised, diagnostics, bookings, tours, guides,
                   availability, skills, bookings_tours, bookings_merged,
                   skills_named, availability_days_guides, valid_avail,
                   available_days_per_guide, merged, not_available, occupied_days,
                   occupancy_table, location_totals, location_days_combined>>

\* the counts in the order value_counts() gives them, most frequent date first
DailyCountsByFrequency(m) == ValueCounts(bookings[m], "BookingDate")

\* bookings[m]["BookingDate"].value_counts().sort_index()
DailyCounts(m) == SortIndex(ValueCounts(bookings[m], "BookingDate"))

\* INSIGHT 2.1 - 2.4 (lines 269-273, 310-314, 350-354, 390-394)
DailyBookings ==
    /\ At("2")
    /\ daily_bookings' = DailyCounts(Script[pc].m)
    /\ pc' = pc + 1
    /\ UNCHANGED <<csv, missing, ties, raised, diagnostics, bookings, tours, guides,
                   availability, skills, bookings_tours, bookings_merged, skills_named,
                   top_tours, combined_daily_bookings, top_guides,
                   availability_days_guides, valid_avail, available_days_per_guide,
                   merged, not_available, occupied_days, occupancy_table,
                   top_skilled_guides, location_totals, location_days_combined,
                   slot_counts, top_slot>>

\* INSIGHT 2.5 (lines 434-438)
CombinedDailyBookings ==
    /\ At("2.5")
    /\ combined_daily_bookings' = [m \in MonthSet |-> DailyCounts(m)]
    /\ pc' = pc + 1
    /\ UNCHANGED <<csv, missing, ties, raised, diagnostics, bookings, tours, guides,
                   availability, skills, bookings_tours, bookings_merged, skills_named,
                   top_tours, daily_bookings, top_guides, availability_days_guides,
                   valid_avail, available_days_per_guide, merged, not_available,
                   occupied_days, occupancy_table, top_skilled_guides, location_totals,
                   location_days_combined, slot_counts, top_slot>>

GuideCounts(m) == Head10(ValueCounts(bookings_merged[m], "GuideName"))

\* INSIGHT 3.1 - 3.4 (lines 479, 507, 535, 563)
TopActiveGuides ==
    /\ At("3")
    /\ top_guides' = [top_guides EXCEPT ![Script[pc].m] = GuideCounts(Script[pc].m)]
    /\ pc' = pc + 1
    /\ UNCHANGED <<csv, missing, ties, raised, diagnostics, bookings, tours, guides,
                   availability, skills, bookings_tours, bookings_merged, skills_named,
                   top_tours, daily_bookings, combined_daily_bookings,
                   availability_days_guides, valid_avail, available_days_per_guide,
                   merged, not_available, occupied_days, occupancy_table,
                   top_skilled_guides, location_totals, location_days_combined,
                   slot_counts, top_slot>>

\* INSIGHT 4.0 (lines 592-598): guides on the left, availability on the right
AvailabilityDaysGuides ==
    /\ At("4.0")
    /\ availability_days_guides' =
           [m \in MonthSet |-> MergeLeft(guides[m], availability[m], "id", "GuideID")]
    /\ pc' = pc + 1
    /\ UNCHANGED <<csv, missing, ties, daily_bookings, combined_daily_bookings,
                   top_guides, top_skilled_guides, slot_counts, top_slot,
                   raised, diagnostics, bookings, tours, guides,
                   availability, skills, bookings_tours, bookings_merged,
                   skills_named, top_tours, valid_avail, available_days_per_guide, merged,
                   not_available, occupied_days, occupancy_table, location_totals,
                   location_days_combined>>

\* a filter that keeps every record
ValidAvailAll(df) == df

\* df[df["GuideAvailability"].notna() & (df["GuideAvailability"] != "")]
ValidAvail(df) ==
    LET Valid(r) == r["GuideAvailability"] # NaNSlot /\ r["GuideAvailability"] # ""
    IN  [cols |-> df.cols, rows |-> SelectSeq(df.rows, Valid)]

\* groupby("GuideName")["AvailabilityDate"].nunique().sort_values(ascending=False)
AvailableDays(df) == SortValuesDesc(GroupNUnique(df, "GuideName", "AvailabilityDate"))

\* INSIGHT 4.1 - 4.4 (lines 604-619, 647-662, 690-705, 733-748): the ten most available
MostAvailable ==
    /\ At("4")
    /\ LET m == Script[pc].m
           valid == ValidAvail(availability_days_guides[m])
       IN  /\ valid_avail' = [valid_avail EXCEPT ![m] = valid]
           /\ available_days_per_guide' =
                  [available_days_per_guide EXCEPT ![m] = Head10(AvailableDays(valid))]
    /\ pc' = pc + 1
    /\ UNCHANGED <<csv, missing, ties, daily_bookings, combined_daily_bookings,
                   top_guides, top_skilled_guides, slot_counts, top_slot,
                   raised, diagnostics, bookings, tours, guides,
                   availability, skills, bookings_tours, bookings_merged,
                   skills_named, top_tours, availability_days_guides, merged, not_available,
                   occupied_days, occupancy_table, location_totals,
                   location_days_combined>>

\* a count over every row of the guides-availability join, the rows without a slot too
AvailableDaysPerGuideUnfiltered ==
    /\ At("5")
    /\ LET m == Script[pc].m
       IN  available_days_per_guide' =
               [available_days_per_guide EXCEPT
                   ![m] = AvailableDays(availability_days_guides[m])]
    /\ pc' = pc + 1
    /\ UNCHANGED <<csv, missing, ties, daily_bookings, combined_daily_bookings,
                   top_guides, top_skilled_guides, slot_counts, top_slot,
                   raised, diagnostics, bookings, tours, guides,
                   availability, skills, bookings_tours, bookings_merged,
                   skills_named, top_tours, availability_days_guides, valid_avail, merged,
                   not_available, occupied_days, occupancy_table, location_totals,
                   location_days_combined>>

\* a section that plots the series of INSIGHT 4.x as it is, without computing it anew
AvailableDaysPerGuideKept ==
    /\ At("5")
    /\ pc' = pc + 1
    /\ UNCHANGED <<csv, missing, ties, daily_bookings, combined_daily_bookings,
                   top_guides, top_skilled_guides, slot_counts, top_slot,
                   raised, diagnostics, bookings, tours, guides,
                   availability, skills, bookings_tours, bookings_merged,
                   skills_named, top_tours, availability_days_guides, valid_avail,
                   available_days_per_guide, merged, not_available, occupied_days,
                   occupancy_table, location_totals, location_days_combined>>

\* INSIGHT 5.1 - 5.4 (lines 776-781, 809-814, 842-847, 876-881): every guide
AvailableDaysPerGuide ==
    /\ At("5")
    /\ LET m == Script[pc].m
       IN  available_days_per_guide' =
               [available_days_per_guide EXCEPT ![m] = AvailableDays(valid_avail[m])]
    /\ pc' = pc + 1
    /\ UNCHANGED <<csv, missing, ties, daily_bookings, combined_daily_bookings,
                   top_guides, top_skilled_guides, slot_counts, top_slot,
                   raised, diagnostics, bookings, tours, guides,
                   availability, skills, bookings_tours, bookings_merged,
                   skills_named, top_tours, availability_days_guides, valid_avail, merged,
                   not_available, occupied_days, occupancy_table, location_totals,
                   location_days_combined>>

SortRowsDesc(df, c) ==
    LET keyed  == [i \in 1..Len(df.rows) |-> [key |-> df.rows[i], val |-> df.rows[i][c]]]
        sorted == SortValuesDesc(keyed)
    IN  [cols |-> df.cols, rows |-> [i \in 1..Len(sorted) |-> sorted[i].key]]

\* three nested merges that keep only the names present in every period
Merge4Inner(f1, f2, f3, f4, on) ==
    MergeInnerOn(MergeInnerOn(MergeInnerOn(f1, f2, on), f3, on), f4, on)

\* three nested pd.merge(..., how="outer") followed by .fillna(0)
Merge4(f1, f2, f3, f4, on) ==
    FillNa0(MergeOuter(MergeOuter(MergeOuter(f1, f2, on), f3, on), f4, on))

\* a total that leaves the last period out
TotalOf3(r, c1, c2, c3, c4) == r[c1] + r[c2] + r[c3]

\* the Total column: the sum of the four period columns
TotalOf(r, c1, c2, c3, c4) == r[c1] + r[c2] + r[c3] + r[c4]

\* INSIGHT 5.5 (lines 916-961)
CombineAvailability ==
    /\ At("5.5")
    /\ LET f03 == ResetIndex(available_days_per_guide["03"], "GuideName", "March")
           f04 == ResetIndex(available_days_per_guide["04"], "GuideName", "April")
           f05 == ResetIndex(available_days_per_guide["05"], "GuideName", "May")
           f06 == ResetIndex(available_days_per_guide["06"], "GuideName", "June")
           filled == Merge4(f03, f04, f05, f06, "GuideName")
           total == [i \in 1..Len(filled.rows) |->
                        TotalOf(filled.rows[i], "March", "April", "May", "June")]
       IN  merged' = WithColumn(filled, "Total", total)
    /\ pc' = pc + 1
    /\ UNCHANGED <<csv, missing, ties, daily_bookings, combined_daily_bookings,
                   top_guides, top_skilled_guides, slot_counts, top_slot,
                   raised, diagnostics, bookings, tours, guides,
                   availability, skills, bookings_tours, bookings_merged,
                   skills_named, top_tours, availability_days_guides, valid_avail,
                   available_days_per_guide, not_available, occupied_days,
                   occupancy_table, location_totals, location_days_combined>>

\* days_in_month - series, then sort_values(ascending=False)
NotAvailable(m, series) ==
    SortValuesDesc([i \in 1..Len(series) |->
                       [key |-> series[i].key, val |-> DaysInMonth(m) - series[i].val]])

\* INSIGHT 6.1 - 6.4 (lines 1013-1020, 1047-1054, 1081-1088, 1115-1122)
NotAvailableDays ==
    /\ At("6")
    /\ LET m == Script[pc].m
       IN  not_available' =
               [not_available EXCEPT ![m] = NotAvailable(m, available_days_per_guide[m])]
    /\ pc' = pc + 1
    /\ UNCHANGED <<csv, missing, ties, daily_bookings, combined_daily_bookings,
                   top_guides, top_skilled_guides, slot_counts, top_slot,
                   raised, diagnostics, bookings, tours, guides,
                   availability, skills, bookings_tours, bookings_merged,
                   skills_named, top_tours, availability_days_guides, valid_avail,
                   available_days_per_guide, merged, occupied_days, occupancy_table,
                   location_totals, location_days_combined>>

\* the number of bookings of each guide instead of the number of distinct dates
OccupiedDaysCounted(df) ==
    LET ks == GroupKeys(df, "GuideName")
    IN  SortValuesDesc([i \in 1..Len(ks) |->
                           [key |-> ks[i], val |-> CountOf(df, "GuideName", ks[i])]])

\* groupby("GuideName")["BookingDate"].nunique() ... sort_values("DaysOccupied")
OccupiedDays(df) == SortValuesDesc(GroupNUnique(df, "GuideName", "BookingDate"))

\* INSIGHT 7.1 - 7.4 (lines 1149-1162, 1195-1208, 1247-1260, 1295-1308)
OccupiedDaysPerGuide ==
    /\ At("7")
    /\ LET m == Script[pc].m
       IN  occupied_days' = [occupied_days EXCEPT ![m] = OccupiedDays(bookings_merged[m])]
    /\ pc' = pc + 1
    /\ UNCHANGED <<csv, missing, ties, daily_bookings, combined_daily_bookings,
                   top_guides, top_skilled_guides, slot_counts, top_slot,
                   raised, diagnostics, bookings, tours, guides,
                   availability, skills, bookings_tours, bookings_merged,
                   skills_named, top_tours, availability_days_guides, valid_avail,
                   available_days_per_guide, merged, not_available, occupancy_table,
                   location_totals, location_days_combined>>

\* a float of the occupancy column: a number (in hundredths of a percent), NaN or inf
Num(v) == [tag |-> "num", v |-> v]

NaNFloat == [tag |-> "nan", v |-> 0]

InfFloat == [tag |-> "inf", v |-> 0]

\* round(num / den) to the nearest integer, halves to the even neighbour
RoundHalfEven(num, den) ==
    LET q == num \div den
        r == num % den
    IN  IF 2 * r < den THEN q
        ELSE IF 2 * r > den THEN q + 1
        ELSE IF q % 2 = 0 THEN q ELSE q + 1

\* a percentage cut to two decimals instead of rounded
OccupancyPctTruncated(occ, avail) ==
    IF occ = NaNInt \/ avail = NaNInt THEN NaNFloat
    ELSE IF avail = 0 THEN (IF occ = 0 THEN NaNFloat ELSE InfFloat)
    ELSE Num((occ * 10000) \div avail)

\* (DaysOccupied / AvailableDays * 100).round(2) in float arithmetic
OccupancyPct(occ, avail) ==
    IF occ = NaNInt \/ avail = NaNInt THEN NaNFloat
    ELSE IF avail = 0 THEN (IF occ = 0 THEN NaNFloat ELSE InfFloat)
    ELSE Num(RoundHalfEven(occ * 10000, avail))

KeySeq(series) == [i \in 1..Len(series) |-> series[i].key]

\* pd.DataFrame({"DaysOccupied": occ, "AvailableDays": avail}): the index is the union
\* of the two indexes, a name absent from one Series gets NaN there
StatsFrame(occ, avail) ==
    LET idx == IF KeySeq(occ) = KeySeq(avail) THEN KeySeq(occ)
               ELSE SortedTexts(Keys(occ) \cup Keys(avail))
    IN  [i \in 1..Len(idx) |->
            [GuideName     |-> idx[i],
             DaysOccupied  |-> IF HasKey(occ, idx[i]) THEN ValueAt(occ, idx[i]) ELSE NaNInt,
             AvailableDays |-> IF HasKey(avail, idx[i]) THEN ValueAt(avail, idx[i])
                               ELSE NaNInt]]

\* sort_values(["OccupancyPct"], ascending=False): inf first, NaN last
SortByPct(rows) ==
    LET IsNum(r) == r.OccupancyPct.tag # "nan"
        IsNaN(r) == r.OccupancyPct.tag = "nan"
        nums   == SelectSeq(rows, IsNum)
        keyed  == [i \in 1..Len(nums) |->
                      [key |-> nums[i],
                       val |-> IF nums[i].OccupancyPct.tag = "inf" THEN 1000000000
                               ELSE nums[i].OccupancyPct.v]]
        sorted == SortValuesDesc(keyed)
    IN  [i \in 1..Len(sorted) |-> sorted[i].key] \o SelectSeq(rows, IsNaN)

OccupancyTable(occ, avail) ==
    LET stats == StatsFrame(occ, avail)
    IN  SortByPct([i \in 1..Len(stats) |->
                      [GuideName     |-> stats[i].GuideName,
                       DaysOccupied  |-> stats[i].DaysOccupied,
                       AvailableDays |-> stats[i].AvailableDays,
                       OccupancyPct  |-> OccupancyPct(stats[i].DaysOccupied,
                                                      stats[i].AvailableDays)]])

\* INSIGHT 8.1 - 8.4 (lines 1343-1366, 1402-1426, 1462-1486, 1525-1549)
OccupancyStats ==
    /\ At("8")
    /\ LET m == Script[pc].m
       IN  occupancy_table' =
               [occupancy_table EXCEPT
                   ![m] = OccupancyTable(occupied_days[m], available_days_per_guide[m])]
    /\ pc' = pc + 1
    /\ UNCHANGED <<csv, missing, ties, daily_bookings, combined_daily_bookings,
                   top_guides, top_skilled_guides, slot_counts, top_slot,
                   raised, diagnostics, bookings, tours, guides,
                   availability, skills, bookings_tours, bookings_merged,
                   skills_named, top_tours, availability_days_guides, valid_avail,
                   available_days_per_guide, merged, not_available, occupied_days,
                   location_totals, location_days_combined>>

SkillCounts(m) == Head10(ValueCounts(skills_named[m], "GuideName"))

\* INSIGHT 9.1 - 9.4 (lines 1585, 1615, 1645, 1675)
CertificationCounts ==
    /\ At("9")
    /\ top_skilled_guides' =
           [top_skilled_guides EXCEPT ![Script[pc].m] = SkillCounts(Script[pc].m)]
    /\ pc' = pc + 1
    /\ UNCHANGED <<csv, missing, ties, raised, diagnostics, bookings, tours, guides,
                   availability, skills, bookings_tours, bookings_merged, skills_named,
                   top_tours, daily_bookings, combined_daily_bookings, top_guides,
                   availability_days_guides, valid_avail, available_days_per_guide,
                   merged, not_available, occupied_days, occupancy_table,
                   location_totals, location_days_combined, slot_counts, top_slot>>

\* a sum that takes Sunday twice
ToursOperatingDaysTwice(r) == SumCols(r, week_cols) + r["Op_Sunday"]

\* a sum over every numeric column the row has besides the id, the result of an earlier
\* run included
ToursOperatingDaysAllColumns(r) ==
    SumCols(r, week_cols)
        + (IF "Tours_Operating_Days" \in DOMAIN r THEN r["Tours_Operating_Days"] ELSE 0)

\* tours[week_cols].sum(axis=1)
ToursOperatingDays(r) == SumCols(r, week_cols)

\* the number of tours of each location instead of their operating days
LocationTourCounts(t) ==
    LET ks == GroupKeys(t, "TourLocation")
    IN  SortValuesDesc([i \in 1..Len(ks) |->
                           [key |-> ks[i], val |-> CountOf(t, "TourLocation", ks[i])]])

\* groupby("TourLocation")["Tours_Operating_Days"].sum().sort_values(ascending=False)
LocationTotals(t) == SortValuesDesc(GroupSum(t, "TourLocation", "Tours_Operating_Days"))

\* INSIGHT 10.1 - 10.4 (lines 1704-1726, 1754-1776, 1805-1827, 1856-1878): the new
\* column is written into the loaded tours table itself
OperatingDaysByLocation ==
    /\ At("10")
    /\ LET m == Script[pc].m
           t == WithColumn(tours[m], "Tours_Operating_Days",
                           [i \in 1..Len(tours[m].rows) |->
                               ToursOperatingDays(tours[m].rows[i])])
       IN  /\ tours' = [tours EXCEPT ![m] = t]
           /\ location_totals' =
                  [location_totals EXCEPT
                      ![m] = LocationTotals(t)]
    /\ pc' = pc + 1
    /\ UNCHANGED <<csv, missing, ties, daily_bookings, combined_daily_bookings,
                   top_guides, top_skilled_guides, slot_counts, top_slot,
                   raised, diagnostics, bookings, guides, availability,
                   skills, bookings_tours, bookings_merged, skills_named, top_tours,
                   availability_days_guides, valid_avail, available_days_per_guide,
                   merged, not_available, occupied_days, occupancy_table,
                   location_days_combined>>

\* INSIGHT 10.5 (lines 1907-1957)
CombineLocationDays ==
    /\ At("10.5")
    /\ LET f03 == ResetIndex(location_totals["03"], "TourLocation", "OperatingDays_March")
           f04 == ResetIndex(location_totals["04"], "TourLocation", "OperatingDays_April")
           f05 == ResetIndex(location_totals["05"], "TourLocation", "OperatingDays_May")
           f06 == ResetIndex(location_totals["06"], "TourLocation", "OperatingDays_June")
           filled == Merge4(f03, f04, f05, f06, "TourLocation")
           total == [i \in 1..Len(filled.rows) |->
                        TotalOf(filled.rows[i], "OperatingDays_March",
                                "OperatingDays_April", "OperatingDays_May",
                                "OperatingDays_June")]
       IN  location_days_combined' =
               SortRowsDesc(WithColumn(filled, "Total", total), "Total")
    /\ pc' = pc + 1
    /\ UNCHANGED <<csv, missing, ties, daily_bookings, combined_daily_bookings,
                   top_guides, top_skilled_guides, slot_counts, top_slot,
                   raised, diagnostics, bookings, tours, guides,
                   availability, skills, bookings_tours, bookings_merged,
                   skills_named, top_tours, availability_days_guides, valid_avail,
                   available_days_per_guide, merged, not_available, occupied_days,
                   occupancy_table, location_totals>>

\* TimeStart.astype(str) + " - " + TimeEnd.astype(str)
TimeSlot(r) == AsTypeStr(r["TimeStart"]) \o <<" ", "-", " ">> \o AsTypeStr(r["TimeEnd"])

\* a filter that keeps every tour
ActiveToursAll(df) == df

\* df[df["Tours_Operating_Days"] > 0]
ActiveTours(df) ==
    LET Active(r) == r["Tours_Operating_Days"] > 0
    IN  [cols |-> df.cols, rows |-> SelectSeq(df.rows, Active)]

SlotCountCols == {"TourLocation", "TimeSlot", "Count"}

\* the (location, slot) groups of the locations locs, slots ascending within a location
RECURSIVE SlotRows(_, _)
SlotRows(df, locs) ==
    IF locs = <<>> THEN <<>>
    ELSE LET loc   == Head(locs)
             at    == {i \in 1..Len(df.rows) : df.rows[i]["TourLocation"] = loc}
             slots == SortedTexts({df.rows[i]["TimeSlot"] : i \in at})
             Size(slot) == Cardinality({i \in at : df.rows[i]["TimeSlot"] = slot})
         IN  [i \in 1..Len(slots) |->
                 [c \in SlotCountCols |->
                     CASE c = "TourLocation" -> loc
                       [] c = "TimeSlot" -> slots[i]
                       [] OTHER -> Size(slots[i])]]
             \o SlotRows(df, Tail(locs))

\* the (location, slot) groups in the order in which the rows first show them
SlotCountsAsSeen(df) ==
    LET pairs == FirstSeen([i \in 1..Len(df.rows) |->
                               <<df.rows[i]["TourLocation"], df.rows[i]["TimeSlot"]>>], {})
        Size(p) == Cardinality({i \in 1..Len(df.rows) :
                                  /\ df.rows[i]["TourLocation"] = p[1]
                                  /\ df.rows[i]["TimeSlot"] = p[2]})
    IN  [cols |-> SlotCountCols,
         rows |-> [i \in 1..Len(pairs) |->
                     [c \in SlotCountCols |->
                         CASE c = "TourLocation" -> pairs[i][1]
                           [] c = "TimeSlot" -> pairs[i][2]
                           [] OTHER -> Size(pairs[i])]]]

\* df.groupby(["TourLocation", "TimeSlot"]).size().reset_index(name="Count")
SlotCounts(df) ==
    [cols |-> SlotCountCols,
     rows |-> SlotRows(df, SortedTexts(Range(Column(df, "TourLocation"))))]

RECURSIVE KeepFirst(_, _, _)
KeepFirst(rows, c, seen) ==
    IF rows = <<>> THEN <<>>
    ELSE IF Head(rows)[c] \in seen THEN KeepFirst(Tail(rows), c, seen)
    ELSE <<Head(rows)>> \o KeepFirst(Tail(rows), c, seen \cup {Head(rows)[c]})

\* df.drop_duplicates(subset=[c], keep="first")
DropDuplicates(df, c) == [cols |-> df.cols, rows |-> KeepFirst(df.rows, c, {})]

\* sort_values("Count", ascending=False).drop_duplicates(subset=["TourLocation"])
TopSlot(counts) == DropDuplicates(SortRowsDesc(counts, "Count"), "TourLocation")

\* TourLocation + "\n(" + TimeSlot + ")"
Label(r) == r["TourLocation"] \o <<"\n", "(">> \o r["TimeSlot"] \o <<")">>

\* INSIGHT 11.1 - 11.4 (lines 2050-2089, 2120-2159, 2190-2227, 2258-2297): TimeSlot and
\* Tours_Operating_Days are written into the loaded tours table itself
MostCommonTimeSlot ==
    /\ At("11")
    /\ LET m  == Script[pc].m
           t1 == WithColumn(tours[m], "TimeSlot",
                            [i \in 1..Len(tours[m].rows) |-> TimeSlot(tours[m].rows[i])])
           t2 == WithColumn(t1, "Tours_Operating_Days",
                            [i \in 1..Len(t1.rows) |-> ToursOperatingDays(t1.rows[i])])
           counts == SlotCounts(ActiveTours(t2))
           top    == TopSlot(counts)
       IN  /\ tours' = [tours EXCEPT ![m] = t2]
           /\ slot_counts' = [slot_counts EXCEPT ![m] = counts]
           /\ top_slot' =
                  [top_slot EXCEPT
                      ![m] = WithColumn(top, "Label",
                                        [i \in 1..Len(top.rows) |-> Label(top.rows[i])])]
    /\ pc' = pc + 1
    /\ UNCHANGED <<csv, missing, ties, raised, diagnostics, bookings, guides,
                   availability, skills, bookings_tours, bookings_merged, skills_named,
                   top_tours, daily_bookings, combined_daily_bookings, top_guides,
                   availability_days_guides, valid_avail, available_days_per_guide,
                   merged, not_available, occupied_days, occupancy_table,
                   top_skilled_guides, location_totals, location_days_combined>>

Next ==
    \/ Load
    \/ BookingsTours
    \/ BookingsMerged
    \/ RenameIds
    \/ SkillsNamed
    \/ TopBookedTours
    \/ DailyBookings
    \/ CombinedDailyBookings
    \/ TopActiveGuides
    \/ AvailabilityDaysGuides
    \/ MostAvailable
    \/ AvailableDaysPerGuide
    \/ CombineAvailability
    \/ NotAvailableDays
    \/ OccupiedDaysPerGuide
    \/ OccupancyStats
    \/ CertificationCounts
    \/ OperatingDaysByLocation
    \/ CombineLocationDays
    \/ MostCommonTimeSlot

----------------------------------------------------------------------------
(* The input files the model is run on *)

MaxBookings == 2

MaxAvail == 3

BulkTours == 11

BulkGuides == 11

RunDays == 32

TxtAn == <<"a", "n">>

TxtAnQuoted == <<"'", "A", "N", "'">>

TxtBo == <<" ", "b", "o">>

TxtRoma == <<"r", "o", "m", "a">>

TxtPisa == <<"P", "I", "S", "A", " ">>

TxtBari == <<"b", "a", "r", "i">>

TxtLucca == <<"l", "u", "c", "c", "a">>

TxtNine == <<"0", "9", ":", "0", "0">>

TxtNoon == <<"1", "2", ":", "0", "0">>

\* a distinct raw tour name for each tour number
TourTxt(k) ==
    IF k <= Len(Lowers) THEN <<"t", Lowers[k]>>
    ELSE <<"t", Lowers[((k - 1) \div Len(Lowers))], Lowers[((k - 1) % Len(Lowers)) + 1]>>

BookingCols(idcol) == {idcol, "TourID", "GuideID", "BookingDate"}

BookingRow(idcol, n, t, g, d) ==
    [c \in BookingCols(idcol) |->
        CASE c = "TourID" -> t
          [] c = "GuideID" -> g
          [] c = "BookingDate" -> d
          [] OTHER -> n]

TourCols == {"id", "TourName", "TourLocation", "TimeStart", "TimeEnd"} \cup week_cols

TourRow(id, name, loc, start, days) ==
    [c \in TourCols |->
        CASE c = "id" -> id
          [] c = "TourName" -> name
          [] c = "TourLocation" -> loc
          [] c = "TimeStart" -> start
          [] c = "TimeEnd" -> TxtNoon
          [] OTHER -> IF c \in days THEN 1 ELSE 0]

GuideCols == {"id", "GuideName", "GuideLocation"}

GuideRow(id, name) ==
    [c \in GuideCols |->
        CASE c = "id" -> id
          [] c = "GuideName" -> name
          [] OTHER -> TxtRoma]

AvailCols == {"GuideID", "AvailabilityDate", "GuideAvailability"}

AvailRow(g, d, slot) ==
    [c \in AvailCols |->
        CASE c = "GuideID" -> g
          [] c = "AvailabilityDate" -> d
          [] OTHER -> slot]

SkillCols == {"GuideID", "TourID"}

SkillRow(g, t) == [c \in SkillCols |-> IF c = "GuideID" THEN g ELSE t]

Frame(cols, rows) == [cols |-> cols, rows |-> rows]

Files(b, t, g, a, s) ==
    [n \in TableNames |->
        CASE n = "bookings" -> b
          [] n = "tours" -> t
          [] n = "guides" -> g
          [] n = "availability" -> a
          [] n = "skills" -> s]

SeqsUpTo(S, n) == UNION {[1..k -> S] : k \in 0..n}

WeekEnd == {"Op_Saturday", "Op_Sunday"}

TwoTours ==
    <<TourRow(1, TourTxt(1), TxtRoma, TxtNine, {"Op_Monday", "Op_Tuesday"}),
      TourRow(2, TourTxt(2), TxtPisa, TxtNine, WeekEnd)>>

TwoGuides == <<GuideRow(1, TxtAn), GuideRow(2, TxtBo)>>

\* a small, consistent set of files, used for the months a scenario does not vary
PlainFiles ==
    Files(Frame(BookingCols("BookingID"),
                <<BookingRow("BookingID", 1, 1, 1, 1), BookingRow("BookingID", 2, 2, 2, 1)>>),
          Frame(TourCols, TwoTours),
          Frame(GuideCols, TwoGuides),
          Frame(AvailCols, <<AvailRow(1, 1, "9-12")>>),
          Frame(SkillCols, <<SkillRow(1, 1), SkillRow(1, 2)>>))

\* the files of every month but March are PlainFiles
OnlyMarch(f) == [m \in MonthSet |-> IF m = "03" THEN f ELSE PlainFiles]

(* Scenario 1: the bookings, tours and guides of March *)

\* a booking is for tour 1, for tour 2, or for a tour and a guide that do not exist
BookingKinds == {<<1, 1, 1>>, <<1, 2, 1>>, <<2, 1, 2>>, <<9, 9, NaNInt>>}

BaseBookings(idcol, kinds) ==
    [i \in 1..Len(kinds) |-> BookingRow(idcol, i, kinds[i][1], kinds[i][2], kinds[i][3])]

\* one booking for each of the tours 11 .. 10 + n, appended after the first k bookings
BulkBookings(idcol, k, n) ==
    [i \in 1..n |-> BookingRow(idcol, k + i, 10 + i, 1, 1)]

BulkTourRows(n) ==
    [i \in 1..n |-> TourRow(10 + i, TourTxt(10 + i), TxtRoma, TxtNine, WeekEnd)]

\* tours tables: none, two tours, a tour id listed twice, two tours with one name
TourTables ==
    {<<>>,
     TwoTours,
     <<TwoTours[1], TourRow(1, <<"T", "A">>, TxtPisa, TxtNine, WeekEnd)>>,
     <<TwoTours[1], TourRow(2, <<"T", "A", " ">>, TxtPisa, TxtNoon, {})>>}

\* guides tables: two guides, a guide id listed twice
GuideTables == {TwoGuides, <<GuideRow(1, TxtAn), GuideRow(1, TxtBo)>>}

JoinFile(idcol, kinds, bulk, tt, gt) ==
    Files(Frame(BookingCols(idcol),
                BaseBookings(idcol, kinds) \o BulkBookings(idcol, Len(kinds), bulk)),
          Frame(TourCols, tt \o BulkTourRows(BulkTours)),
          Frame(GuideCols, gt),
          Frame(AvailCols, <<AvailRow(1, 1, "9-12")>>),
          Frame(SkillCols, <<SkillRow(1, 1)>>))

\* a few bookings under either layout of the bookings table and either guides table, or
\* the same bookings followed by one booking for each of the tours 11 .. 10 + BulkTours
JoinFiles ==
    {JoinFile(idcol, kinds, 0, tt, gt) :
        idcol \in {"id", "BookingID"},
        kinds \in SeqsUpTo(BookingKinds, MaxBookings),
        tt \in TourTables,
        gt \in GuideTables}
    \cup
    {JoinFile("BookingID", kinds, BulkTours, tt, TwoGuides) :
        kinds \in SeqsUpTo(BookingKinds, MaxBookings),
        tt \in TourTables}

(* Scenario 2: the guides, availability and bookings of March *)

\* availability records: two slots on one day, an empty slot, a record without a date,
\* a record of a guide that is not in the roster, a day of the second guide
AvailKinds ==
    <<<<1, 1, "9-12">>, <<1, 1, "13-15">>, <<1, 2, "">>, <<2, NaNInt, "9-12">>,
      <<9, 1, "9-12">>, <<2, 1, "9-12">>>>

\* the availability tables made of at most n of the records above
AvailPicks(n) ==
    {Ascending(S) : S \in {T \in SUBSET (1..Len(AvailKinds)) : Cardinality(T) <= n}}

BaseAvail(picks) ==
    [i \in 1..Len(picks) |->
        AvailRow(AvailKinds[picks[i]][1], AvailKinds[picks[i]][2], AvailKinds[picks[i]][3])]

\* guide 1 available on each of the days 1 .. n
RunOfDays(n) == [i \in 1..n |-> AvailRow(1, i, "9-12")]

\* rosters: two guides, two guides whose names read the same once standardized, one
\* guide listed twice; one family of files has more guides than the ten of a top list
RosterTables ==
    {TwoGuides,
     <<GuideRow(1, TxtAn), GuideRow(2, TxtAnQuoted)>>,
     <<GuideRow(1, TxtAn), GuideRow(1, TxtAnQuoted)>>}

\* the guides 21 .. 20 + n, each under a name of its own
BulkGuideRows(n) == [i \in 1..n |-> GuideRow(20 + i, <<"g", Lowers[i]>>)]

\* guide 20 + i is available on each of the days 1 .. ((i - 1) % 3) + 1
BulkAvail(n) ==
    [k \in 1..(3 * n) |->
        AvailRow(20 + ((k - 1) \div 3) + 1,
                 IF ((k - 1) % 3) + 1 <= (((k - 1) \div 3) % 3) + 1
                 THEN ((k - 1) % 3) + 1 ELSE 1,
                 "9-12")]

BookedTables ==
    {<<>>,
     <<BookingRow("BookingID", 1, 1, 1, 1), BookingRow("BookingID", 2, 1, 1, 2),
       BookingRow("BookingID", 3, 2, 2, 2)>>}

AvailFiles ==
    {Files(Frame(BookingCols("BookingID"), bt),
           Frame(TourCols, TwoTours),
           Frame(GuideCols, gt),
           Frame(AvailCols, BaseAvail(picks) \o RunOfDays(run)),
           Frame(SkillCols, <<SkillRow(1, 1)>>)) :
        bt \in BookedTables,
        gt \in RosterTables,
        picks \in AvailPicks(MaxAvail),
        run \in {0, 3, RunDays}}
    \cup
    {Files(Frame(BookingCols("BookingID"), bt),
           Frame(TourCols, TwoTours),
           Frame(GuideCols, TwoGuides \o BulkGuideRows(BulkGuides)),
           Frame(AvailCols, BaseAvail(picks) \o BulkAvail(BulkGuides)),
           Frame(SkillCols, <<SkillRow(1, 1)>>)) :
        bt \in BookedTables,
        picks \in AvailPicks(1)}

(* Scenario 3: each month has one of a few small sets of files *)

MonthFiles ==
    {PlainFiles,
     Files(Frame(BookingCols("BookingID"), <<>>),
           Frame(TourCols, <<TwoTours[2],
                             TourRow(3, TourTxt(3), TxtBari, TxtNine, week_cols),
                             TourRow(4, TourTxt(4), TxtBari, TxtNoon, WeekEnd),
                             TourRow(5, TourTxt(5), TxtBari, TxtNoon, {"Op_Monday"}),
                             TourRow(6, TourTxt(6), TxtLucca, TxtNine, {}),
                             TourRow(7, TourTxt(7), TxtPisa, TxtNoon, WeekEnd)>>),
           Frame(GuideCols, TwoGuides),
           Frame(AvailCols, <<AvailRow(2, 1, "9-12"), AvailRow(2, 2, "9-12")>>),
           Frame(SkillCols, <<>>)),
     Files(Frame(BookingCols("BookingID"), <<>>),
           Frame(TourCols, <<>>),
           Frame(GuideCols, <<GuideRow(3, <<"c", "y">>), GuideRow(4, NaNText)>>),
           Frame(AvailCols, <<AvailRow(3, 3, "9-12"), AvailRow(4, 4, "9-12")>>),
           Frame(SkillCols, <<>>))}

Unset ==
    /\ pc = 1
    /\ raised = "none"
    /\ diagnostics = {}
    /\ bookings = NoFrames
    /\ tours = NoFrames
    /\ guides = NoFrames
    /\ availability = NoFrames
    /\ skills = NoFrames
    /\ bookings_tours = NoFrames
    /\ bookings_merged = NoFrames
    /\ skills_named = NoFrames
    /\ top_tours = <<>>
    /\ daily_bookings = <<>>
    /\ combined_daily_bookings = NoSeries
    /\ top_guides = NoSeries
    /\ top_skilled_guides = NoSeries
    /\ slot_counts = NoFrames
    /\ top_slot = NoFrames
    /\ availability_days_guides = NoFrames
    /\ valid_avail = NoFrames
    /\ available_days_per_guide = NoSeries
    /\ merged = EmptyFrame
    /\ not_available = NoSeries
    /\ occupied_days = NoSeries
    /\ occupancy_table = NoSeries
    /\ location_totals = NoSeries
    /\ location_days_combined = EmptyFrame

\* a run may find one month's files absent
MissingChoices == {{}, {"04"}}

InitJoin ==
    /\ csv \in {OnlyMarch(f) : f \in JoinFiles}
    /\ missing \in MissingChoices
    /\ ties \in TieOrders
    /\ Unset

InitAvail ==
    /\ csv \in {OnlyMarch(f) : f \in AvailFiles}
    /\ missing \in MissingChoices
    /\ ties \in TieOrders
    /\ Unset

InitCombine ==
    /\ csv \in [MonthSet -> MonthFiles]
    /\ missing \in MissingChoices
    /\ ties \in TieOrders
    /\ Unset

Init == InitJoin \/ InitAvail \/ InitCombine

Spec == Init /\ [][Next]_vars

SpecJoin == InitJoin /\ [][Next]_vars

SpecAvail == InitAvail /\ [][Next]_vars

SpecCombine == InitCombine /\ [][Next]_vars

----------------------------------------------------------------------------
(* What the claims speak of, stated on the tables directly *)

\* the section that has just run
Just(sec) == pc > 1 /\ raised = "none" /\ Script[pc - 1].sec = sec

JustMonth == Script[pc - 1].m

RowsOf(df) == {df.rows[i] : i \in 1..Len(df.rows)}

Indices(df) == 1..Len(df.rows)

\* the column of a joined table that holds the bookings table's own id column
BookingIdColumn(m, joined) ==
    IF "BookingID" \in bookings[m].cols THEN "BookingID"
    ELSE IF "id_x" \in joined.cols THEN "id_x" ELSE "TourID_Source"

\* row r of a joined table is booking b of month m
IsBooking(m, joined, r, b) ==
    /\ r["TourID"] = b["TourID"]
    /\ r["GuideID"] = b["GuideID"]
    /\ r["BookingDate"] = b["BookingDate"]
    /\ r[BookingIdColumn(m, joined)] = b[CHOOSE c \in bookings[m].cols :
                                            c \notin {"TourID", "GuideID", "BookingDate"}]

HasTour(m, id) == \E t \in RowsOf(tours[m]) : t["id"] = id

HasGuide(m, id) == \E g \in RowsOf(guides[m]) : g["id"] = id

TourFieldsNull(r) ==
    \A c \in {"TourName", "TourLocation", "TimeStart", "TimeEnd"} : r[c] = NaNText

GuideFieldsNull(r) ==
    \A c \in {"GuideName", "GuideLocation"} : r[c] = NaNText

\* the bookings of month m whose tour is called name
BookingsOfTour(m, name) ==
    {i \in Indices(bookings[m]) :
        \E t \in RowsOf(tours[m]) :
            t["id"] = bookings[m].rows[i]["TourID"] /\ t["TourName"] = name}

\* the availability records, as written in the file, that have a slot and belong to a
\* guide called name
SlotsOfGuide(m, name) ==
    LET file == csv[m]["availability"]
    IN  {i \in Indices(file) :
            /\ file.rows[i]["GuideAvailability"] \notin {"", NaNSlot}
            /\ \E g \in RowsOf(guides[m]) :
                   g["id"] = file.rows[i]["GuideID"] /\ g["GuideName"] = name}

AvailabilityDaysOf(m, name) ==
    {csv[m]["availability"].rows[i]["AvailabilityDate"] : i \in SlotsOfGuide(m, name)}
        \ {NaNInt}

GuideNames(m) == {g["GuideName"] : g \in RowsOf(guides[m])}

\* the dates on which a guide called name has a booking
OccupiedDatesOf(m, name) ==
    {bookings[m].rows[i]["BookingDate"] :
        i \in {j \in Indices(bookings[m]) :
                 \E g \in RowsOf(guides[m]) :
                     g["id"] = bookings[m].rows[j]["GuideID"] /\ g["GuideName"] = name}}
        \ {NaNInt}

UniqueKeys(series) == Cardinality(Keys(series)) = Len(series)

\* C1: every booking of a period is in the Bookings-Tours join and in the
\* Bookings-Tours-Guides join; its tour fields are null when no tour has its TourID,
\* its guide fields are null when no guide has its GuideID; the joins raise no error.
C1_JoinKeepsEveryBooking ==
    /\ pc > 1 => raised = "none"
    /\ Done("bookings_tours", "all") =>
         \A m \in MonthSet : \A b \in RowsOf(bookings[m]) :
            \E r \in RowsOf(bookings_tours[m]) :
               /\ IsBooking(m, bookings_tours[m], r, b)
               /\ ~HasTour(m, b["TourID"]) => TourFieldsNull(r)
    /\ Done("bookings_merged", "all") =>
         \A m \in MonthSet : \A b \in RowsOf(bookings[m]) :
            \E r \in RowsOf(bookings_merged[m]) :
               /\ IsBooking(m, bookings_merged[m], r, b)
               /\ ~HasTour(m, b["TourID"]) => TourFieldsNull(r)
               /\ ~HasGuide(m, b["GuideID"]) => GuideFieldsNull(r)

\* a booking whose tour and guide do not exist has been joined
C1_Witness ==
    /\ Done("bookings_merged", "all")
    /\ \E b \in RowsOf(bookings["03"]) :
          /\ ~HasTour("03", b["TourID"])
          /\ ~HasGuide("03", b["GuideID"])
          /\ \E r \in RowsOf(bookings_merged["03"]) :
                IsBooking("03", bookings_merged["03"], r, b) /\ TourFieldsNull(r)
                /\ GuideFieldsNull(r)

\* C2: a guide whose AvailableDays is 0 has an undefined (null) occupancy, never 0 and
\* never infinity.
C2_ZeroAvailableDaysIsUndefined ==
    \A m \in MonthSet :
        Done("8", m) =>
            \A i \in 1..Len(occupancy_table[m]) :
                occupancy_table[m][i].AvailableDays = 0 =>
                    occupancy_table[m][i].OccupancyPct = NaNFloat

\* C3: every value of notAvailableDays is days-in-month minus the guide's count of
\* available days, and is never negative.
C3_NotAvailableDaysNeverNegative ==
    \A m \in MonthSet :
        Done("6", m) =>
            /\ Keys(not_available[m]) = Keys(available_days_per_guide[m])
            /\ \A i \in 1..Len(not_available[m]) :
                  LET e == not_available[m][i]
                  IN  /\ e.val = DaysInMonth(m) - Cardinality(AvailabilityDaysOf(m, e.key))
                      /\ e.val >= 0

\* C4: when a guide has more availability days than the month has days, the run flags
\* it with a warning or an error.
C4_InconsistencyIsFlagged ==
    \A m \in MonthSet :
        (/\ Done("6", m)
         /\ \E name \in GuideNames(m) :
               Cardinality(AvailabilityDaysOf(m, name)) > DaysInMonth(m))
        => (diagnostics # {} \/ raised # "none")

\* C5: availableDaysPerGuide lists the guide names that have a record with a slot, each
\* with the number of distinct dates among those records (two slots on one date count
\* once, a record with an empty or missing slot counts for nothing), largest first.
C5_AvailableDaysPerGuide ==
    \A m \in MonthSet :
        Done("5", m) =>
            LET s == available_days_per_guide[m]
            IN  /\ UniqueKeys(s)
                /\ Keys(s) = {n \in GuideNames(m) : SlotsOfGuide(m, n) # {}}
                /\ \A i \in 1..Len(s) :
                      s[i].val = Cardinality(AvailabilityDaysOf(m, s[i].key))
                /\ IsDescending(s)

\* a guide with two slots on one date and a record with an empty slot on another date
\* is listed with one day
C5_Witness ==
    /\ Done("5", "03")
    /\ \E i \in 1..Len(available_days_per_guide["03"]) :
          LET e    == available_days_per_guide["03"][i]
              file == csv["03"]["availability"]
          IN  /\ e.val = 1
              /\ Cardinality(SlotsOfGuide("03", e.key)) = 2
              /\ \E j \in Indices(file) :
                    /\ file.rows[j]["GuideAvailability"] = ""
                    /\ file.rows[j]["AvailabilityDate"]
                           \notin AvailabilityDaysOf("03", e.key) \cup {NaNInt}
                    /\ \E g \in RowsOf(guides["03"]) :
                          g["id"] = file.rows[j]["GuideID"] /\ g["GuideName"] = e.key

\* C6: a guide with AvailableDays > 0 has a defined occupancy >= 0, also when the guide
\* has no booking in the period.
C6_OccupancyDefinedWhenAvailable ==
    \A m \in MonthSet :
        Done("8", m) =>
            \A i \in 1..Len(occupancy_table[m]) :
                LET r == occupancy_table[m][i]
                IN  (r.AvailableDays # NaNInt /\ r.AvailableDays > 0) =>
                        (r.OccupancyPct.tag = "num" /\ r.OccupancyPct.v >= 0)

\* C7: for a guide with a DaysOccupied count and a positive AvailableDays count,
\* OccupancyPct is DaysOccupied / AvailableDays * 100 to the nearest hundredth, and the
\* two counts are that guide's occupied and available days of that same period.
C7_OccupancyPctRounded ==
    \A m \in MonthSet :
        Done("8", m) =>
            \A i \in 1..Len(occupancy_table[m]) :
                LET r == occupancy_table[m][i]
                    d == r.OccupancyPct.v * r.AvailableDays - r.DaysOccupied * 10000
                IN  (r.DaysOccupied # NaNInt /\ r.AvailableDays # NaNInt
                     /\ r.AvailableDays > 0) =>
                        /\ r.DaysOccupied = Cardinality(OccupiedDatesOf(m, r.GuideName))
                        /\ r.AvailableDays = Cardinality(AvailabilityDaysOf(m, r.GuideName))
                        /\ r.OccupancyPct.tag = "num"
                        /\ 2 * d <= r.AvailableDays
                        /\ 2 * d >= 0 - r.AvailableDays

\* two occupied days out of three available ones are reported as 66.67
C7_Witness ==
    /\ Done("8", "03")
    /\ \E i \in 1..Len(occupancy_table["03"]) :
          LET r == occupancy_table["03"][i]
          IN  r.DaysOccupied = 2 /\ r.AvailableDays = 3 /\ r.OccupancyPct = Num(6667)

PeriodColumns == [m \in MonthSet |->
                    CASE m = "03" -> "March" [] m = "04" -> "April"
                      [] m = "05" -> "May"   [] m = "06" -> "June"]

LocationColumns == [m \in MonthSet |->
                      CASE m = "03" -> "OperatingDays_March"
                        [] m = "04" -> "OperatingDays_April"
                        [] m = "05" -> "OperatingDays_May"
                        [] m = "06" -> "OperatingDays_June"]

\* the operating days of the tours of month m at a location, from the file's flags
OperatingDaysAt(m, loc) ==
    LET at == {i \in Indices(tours[m]) : tours[m].rows[i]["TourLocation"] = loc}
        flags == {<<i, c>> \in at \X week_cols : tours[m].rows[i][c] = 1}
    IN  Cardinality(flags)

Locations(m) == {t["TourLocation"] : t \in RowsOf(tours[m])}

NamesWithDays(m) == {n \in GuideNames(m) : SlotsOfGuide(m, n) # {}}

EntityOnce(df, on) ==
    \A i \in Indices(df) : \A j \in Indices(df) :
        df.rows[i][on] = df.rows[j][on] => i = j

\* C8: the entity names of a combined table are the union of the entity names of the
\* four per-period results, each once.
C8_CombinedEntitiesAreTheUnion ==
    /\ Done("5.5", "all") =>
          /\ {r["GuideName"] : r \in RowsOf(merged)}
                = UNION {Keys(available_days_per_guide[m]) : m \in MonthSet}
          /\ {r["GuideName"] : r \in RowsOf(merged)}
                = UNION {NamesWithDays(m) : m \in MonthSet}
          /\ EntityOnce(merged, "GuideName")
    /\ Done("10.5", "all") =>
          /\ {r["TourLocation"] : r \in RowsOf(location_days_combined)}
                = UNION {Keys(location_totals[m]) : m \in MonthSet}
          /\ {r["TourLocation"] : r \in RowsOf(location_days_combined)}
                = UNION {Locations(m) : m \in MonthSet}
          /\ EntityOnce(location_days_combined, "TourLocation")

\* a guide with availability in one period only and a location with tours in one
\* period only are in the combined tables
C8_Witness ==
    /\ Done("10.5", "all")
    /\ \E r \in RowsOf(merged) :
          Cardinality({m \in MonthSet : r["GuideName"] \in NamesWithDays(m)}) = 1
    /\ \E r \in RowsOf(location_days_combined) :
          Cardinality({m \in MonthSet : r["TourLocation"] \in Locations(m)}) = 1

\* C9: a period column holds the entity's value of that period, or 0 when the entity
\* is absent from the period, and Total is the sum of the four period columns.
C9_PeriodColumnsAndTotal ==
    /\ Done("5.5", "all") =>
          \A r \in RowsOf(merged) :
             /\ \A m \in MonthSet :
                   r[PeriodColumns[m]] =
                       IF r["GuideName"] \in NamesWithDays(m)
                       THEN Cardinality(AvailabilityDaysOf(m, r["GuideName"])) ELSE 0
             /\ r["Total"] = r["March"] + r["April"] + r["May"] + r["June"]
    /\ Done("10.5", "all") =>
          \A r \in RowsOf(location_days_combined) :
             /\ \A m \in MonthSet :
                   r[LocationColumns[m]] =
                       IF r["TourLocation"] \in Locations(m)
                       THEN OperatingDaysAt(m, r["TourLocation"]) ELSE 0
             /\ r["Total"] = r["OperatingDays_March"] + r["OperatingDays_April"]
                             + r["OperatingDays_May"] + r["OperatingDays_June"]

\* a guide absent from March and present in June has 0 for March and a positive Total
C9_Witness ==
    /\ Done("10.5", "all")
    /\ \E r \in RowsOf(merged) :
          /\ r["GuideName"] \notin NamesWithDays("03")
          /\ r["March"] = 0
          /\ r["June"] > 0
          /\ r["Total"] > r["June"]
    /\ \E r \in RowsOf(location_days_combined) :
          /\ r["TourLocation"] \notin Locations("06")
          /\ r["OperatingDays_June"] = 0
          /\ r["Total"] > 0

\* C10: topBookedTours has at most 10 entries, each with the number of bookings of the
\* period whose tour has that name, in descending order, and no tour left out has more
\* bookings than a listed one.
C10_TopBookedTours ==
    Just("1") =>
        LET m == JustMonth
            names == {t["TourName"] : t \in RowsOf(tours[m])}
        IN  /\ Len(top_tours) <= TopN
            /\ UniqueKeys(top_tours)
            /\ \A i \in 1..Len(top_tours) :
                  top_tours[i].val = Cardinality(BookingsOfTour(m, top_tours[i].key))
            /\ IsDescending(top_tours)
            /\ \A n \in names \ Keys(top_tours) :
                  \A i \in 1..Len(top_tours) :
                      Cardinality(BookingsOfTour(m, n)) <= top_tours[i].val

\* the position, in the Bookings-Tours join, of the first booking of the tour called name
FirstBooking(m, name) ==
    CHOOSE i \in Indices(bookings_tours[m]) :
        /\ bookings_tours[m].rows[i]["TourName"] = name
        /\ \A j \in 1..(i - 1) : bookings_tours[m].rows[j]["TourName"] # name

\* C11: in topBookedTours, tours with equal counts are in the order of their first
\* booking in the input, and a tour left out by the top-10 cut that has the count of a
\* listed tour has its first booking after that tour's.
C11_TiesInFirstAppearanceOrder ==
    Just("1") =>
        LET m == JustMonth
            names == Range(Column(bookings_tours[m], "TourName")) \ {NaNText}
        IN  /\ \A i \in 1..Len(top_tours) : \A j \in 1..Len(top_tours) :
                  (i < j /\ top_tours[i].val = top_tours[j].val) =>
                      FirstBooking(m, top_tours[i].key) < FirstBooking(m, top_tours[j].key)
            /\ \A n \in names \ Keys(top_tours) : \A i \in 1..Len(top_tours) :
                  top_tours[i].val = CountOf(bookings_tours[m], "TourName", n) =>
                      FirstBooking(m, top_tours[i].key) < FirstBooking(m, n)

RECURSIVE SumVals(_)
SumVals(series) == IF series = <<>> THEN 0 ELSE Head(series).val + SumVals(Tail(series))

BookingDates(m) == Range(Column(bookings[m], "BookingDate")) \ {NaNInt}

IsAscendingByKey(series) ==
    \A i \in 1..Len(series) : \A j \in 1..Len(series) :
        i < j => series[i].key < series[j].key

\* the bookings of month m that have a BookingDate
DatedBookings(m) ==
    {i \in Indices(bookings[m]) : bookings[m].rows[i]["BookingDate"] # NaNInt}

\* the daily counts s are those of the bookings of month m, and sum to total
DailyCountsOf(m, s, total) ==
    /\ Keys(s) = BookingDates(m)
    /\ \A i \in 1..Len(s) : s[i].val = CountOf(bookings[m], "BookingDate", s[i].key)
    /\ IsAscendingByKey(s)
    /\ SumVals(s) = total

\* C12 as stated: dailyBookingCounts has one entry per distinct BookingDate of the
\* period, with the number of bookings on that date, in ascending date order, and the
\* counts sum to the number of bookings; for each single period and in the four-period
\* comparison.
C12_DailyBookingCounts ==
    /\ Just("2") => DailyCountsOf(JustMonth, daily_bookings, Len(bookings[JustMonth].rows))
    /\ Done("2.5", "all") =>
          \A m \in MonthSet :
              DailyCountsOf(m, combined_daily_bookings[m], Len(bookings[m].rows))

\* C12 amended: one entry per distinct BookingDate, with the number of bookings on that
\* date, in ascending date order, and the counts sum to the number of bookings that
\* have a BookingDate (a booking without a date is in no entry).
C12_DailyBookingCountsDated ==
    /\ Just("2") =>
          DailyCountsOf(JustMonth, daily_bookings, Cardinality(DatedBookings(JustMonth)))
    /\ Done("2.5", "all") =>
          \A m \in MonthSet :
              DailyCountsOf(m, combined_daily_bookings[m], Cardinality(DatedBookings(m)))

\* the daily counts of a month with a booking on a date and a booking without a date
C12_Witness ==
    /\ Just("2")
    /\ daily_bookings # <<>>
    /\ SumVals(daily_bookings) < Len(bookings[JustMonth].rows)
    /\ \E i \in Indices(bookings[JustMonth]) : i \notin DatedBookings(JustMonth)

\* the bookings of month m whose guide is called name
BookingsOfGuide(m, name) ==
    {j \in Indices(bookings[m]) :
        \E g \in RowsOf(guides[m]) :
            g["id"] = bookings[m].rows[j]["GuideID"] /\ g["GuideName"] = name}

\* C13: occupiedDaysPerGuide lists every guide name of the bookings-with-guide join
\* with the number of distinct BookingDate values among that guide's bookings (several
\* bookings on one date count once), in descending order of DaysOccupied.
C13_OccupiedDaysPerGuide ==
    \A m \in MonthSet :
        Done("7", m) =>
            LET s == occupied_days[m]
            IN  /\ UniqueKeys(s)
                /\ Keys(s) = Range(Column(bookings_merged[m], "GuideName")) \ {NaNText}
                /\ \A i \in 1..Len(s) :
                      s[i].val = Cardinality(OccupiedDatesOf(m, s[i].key))
                /\ IsDescending(s)

\* a guide with two bookings on one date is listed with one occupied day
C13_Witness ==
    /\ Done("7", "03")
    /\ \E i \in 1..Len(occupied_days["03"]) :
          LET e == occupied_days["03"][i]
          IN  /\ e.val = 1
              /\ \E j \in BookingsOfGuide("03", e.key) :
                 \E k \in BookingsOfGuide("03", e.key) :
                     /\ j # k
                     /\ bookings["03"].rows[j]["BookingDate"]
                            = bookings["03"].rows[k]["BookingDate"]
                     /\ bookings["03"].rows[j]["BookingDate"] # NaNInt

\* the active tours of month m: those with at least one operating flag set
ActiveTourRows(m) ==
    {i \in Indices(tours[m]) :
        \E c \in week_cols : tours[m].rows[i][c] # NaNInt /\ tours[m].rows[i][c] > 0}

\* the number of active tours of month m at a location with a time slot
SlotCountAt(m, loc, slot) ==
    Cardinality({i \in ActiveTourRows(m) :
                    /\ tours[m].rows[i]["TourLocation"] = loc
                    /\ TimeSlot(tours[m].rows[i]) = slot})

\* C14: dominantTimeSlotByLocation counts only the tours with an operating-day count
\* above 0; every location with such a tour has exactly one row, no other location has
\* one, and the row's count is the largest count among that location's time slots.
C14_DominantTimeSlot ==
    \A m \in MonthSet :
        Done("11", m) =>
            /\ {r["TourLocation"] : r \in RowsOf(top_slot[m])}
                  = {tours[m].rows[i]["TourLocation"] : i \in ActiveTourRows(m)}
            /\ EntityOnce(top_slot[m], "TourLocation")
            /\ \A r \in RowsOf(top_slot[m]) :
                  /\ r["Count"] = SlotCountAt(m, r["TourLocation"], r["TimeSlot"])
                  /\ \A i \in ActiveTourRows(m) :
                        tours[m].rows[i]["TourLocation"] = r["TourLocation"] =>
                            SlotCountAt(m, r["TourLocation"], TimeSlot(tours[m].rows[i]))
                                <= r["Count"]

\* a location with two time slots has the row of the more frequent one, and the
\* location of a tour that never operates has no row
C14_Witness ==
    \E m \in MonthSet :
        /\ Done("11", m)
        /\ \E r \in RowsOf(top_slot[m]) : \E i \in ActiveTourRows(m) :
              /\ tours[m].rows[i]["TourLocation"] = r["TourLocation"]
              /\ TimeSlot(tours[m].rows[i]) # r["TimeSlot"]
              /\ SlotCountAt(m, r["TourLocation"], TimeSlot(tours[m].rows[i])) < r["Count"]
        /\ \E i \in Indices(tours[m]) :
              /\ i \notin ActiveTourRows(m)
              /\ \A r \in RowsOf(top_slot[m]) :
                    r["TourLocation"] # tours[m].rows[i]["TourLocation"]

\* C15: operatingDaysByLocation lists every location of the tours table once, with the
\* sum over the tours at that location of the tour's seven Op_* flags, largest total
\* first.
C15_OperatingDaysByLocation ==
    \A m \in MonthSet :
        Done("10", m) =>
            LET s == location_totals[m]
            IN  /\ UniqueKeys(s)
                /\ Keys(s) = Locations(m)
                /\ \A i \in 1..Len(s) : s[i].val = OperatingDaysAt(m, s[i].key)
                /\ IsDescending(s)

\* a location with several tours has the sum of their operating days, ahead of a
\* location with fewer
C15_Witness ==
    \E m \in MonthSet :
        /\ Done("10", m)
        /\ Len(location_totals[m]) >= 2
        /\ location_totals[m][1].val > location_totals[m][2].val
        /\ Cardinality({i \in Indices(tours[m]) :
                           tours[m].rows[i]["TourLocation"] = location_totals[m][1].key
                           /\ ToursOperatingDays(tours[m].rows[i]) > 0}) >= 2

\* the number of Op_* flags of a tour row that are set
FlagsSet(r) == Cardinality({c \in week_cols : r[c] = 1})

\* C16: in every period, every tour's Tours_Operating_Days is the number of its seven
\* Op_Monday..Op_Sunday flags that are set, and lies in 0..7.
C16_OperatingDaysInRange ==
    \A m \in MonthSet :
        Done("10", m) =>
            \A r \in RowsOf(tours[m]) :
                /\ r["Tours_Operating_Days"] = FlagsSet(r)
                /\ r["Tours_Operating_Days"] >= 0
                /\ r["Tours_Operating_Days"] <= 7

\* a tour that runs every day has 7, a tour that never runs has 0
C16_Witness ==
    \E m \in MonthSet :
        /\ Done("10", m)
        /\ \E r \in RowsOf(tours[m]) : r["Tours_Operating_Days"] = 7
        /\ \E r \in RowsOf(tours[m]) : r["Tours_Operating_Days"] = 0

\* the skill records of month m that reference a guide called name
SkillsOfGuide(m, name) ==
    {i \in Indices(skills[m]) :
        \E g \in RowsOf(guides[m]) :
            g["id"] = skills[m].rows[i]["GuideID"] /\ g["GuideName"] = name}

\* C17: certificationCounts has at most 10 entries in descending order of count, and
\* each guide's count is the number of skill records of the period that reference that
\* guide.
C17_CertificationCounts ==
    \A m \in MonthSet :
        Done("9", m) =>
            LET s == top_skilled_guides[m]
            IN  /\ Len(s) <= TopN
                /\ IsDescending(s)
                /\ UniqueKeys(s)
                /\ \A i \in 1..Len(s) : s[i].val = Cardinality(SkillsOfGuide(m, s[i].key))

\* the five tables of month m are the loaded files of month m
Loaded(m) ==
    /\ bookings[m] = LoadTable(csv[m]["bookings"])
    /\ csv[m]["tours"].cols \subseteq tours[m].cols
    /\ Len(tours[m].rows) = Len(csv[m]["tours"].rows)
    /\ guides[m] = LoadTable(csv[m]["guides"])
    /\ availability[m] = LoadTable(csv[m]["availability"])
    /\ skills[m] = LoadTable(csv[m]["skills"])

\* C18: when the files of one period cannot be loaded, the other periods are still
\* loaded and the run reports the period that failed.
C18_FailureIsIsolated ==
    (missing # {} /\ (pc > 1 \/ raised # "none")) =>
        /\ \A m \in MonthSet \ missing : Loaded(m)
        /\ \A m \in missing : m \in diagnostics

\* C19: after the Bookings-Tours-Guides join and the renaming, every joined row has a
\* TourID_Source column holding the id of the matched tour and a GuideID_Source column
\* holding the id of the matched guide (null when nothing matched), whatever the
\* bookings table calls its own key column.
C19_IdColumnsNamedBySource ==
    Done("rename", "all") =>
        \A m \in MonthSet :
            /\ {"TourID_Source", "GuideID_Source"} \subseteq bookings_merged[m].cols
            /\ \A r \in RowsOf(bookings_merged[m]) :
                  /\ r["TourID_Source"] =
                        IF HasTour(m, r["TourID"]) THEN r["TourID"] ELSE NaNInt
                  /\ r["GuideID_Source"] =
                        IF HasGuide(m, r["GuideID"]) THEN r["GuideID"] ELSE NaNInt

\* C20: every availability record of a period is in the Availability-Guides join, with
\* a null guide name when its GuideID matches no guide.
C20_AvailabilityJoinKeepsEveryRecord ==
    Done("4.0", "all") =>
        \A m \in MonthSet : \A a \in RowsOf(availability[m]) :
            \E r \in RowsOf(availability_days_guides[m]) :
                /\ r["GuideID"] = a["GuideID"]
                /\ r["AvailabilityDate"] = a["AvailabilityDate"]
                /\ r["GuideAvailability"] = a["GuideAvailability"]
                /\ ~HasGuide(m, a["GuideID"]) => r["GuideName"] = NaNText

\* the loaded table of a kind, for month m
TableOf(t, m) ==
    CASE t = "bookings" -> bookings[m]
      [] t = "tours" -> tours[m]
      [] t = "guides" -> guides[m]
      [] t = "availability" -> availability[m]
      [] t = "skills" -> skills[m]

\* v is raw without the quote and space characters around it, in title case
IsNormalizedFrom(raw, v) ==
    \E a \in 1..(Len(raw) + 1) :
        /\ \A k \in 1..(a - 1) : raw[k] \in StripChars
        /\ \A k \in (a + Len(v))..Len(raw) : raw[k] \in StripChars
        /\ a + Len(v) <= Len(raw) + 1
        /\ v # <<>> => raw[a] \notin StripChars /\ raw[a + Len(v) - 1] \notin StripChars
        /\ \A k \in 1..Len(v) :
              /\ ToLower(v[k]) = ToLower(raw[a + k - 1])
              /\ v[k] = IF k = 1 \/ ~IsLetter(v[k - 1]) THEN ToUpper(v[k]) ELSE ToLower(v[k])

\* C21: in every loaded table each of the six text columns holds the file's value with
\* the surrounding quote and space characters stripped and in title case, every other
\* column holds the value as read, and normalizing a loaded value again changes nothing.
C21_LoaderNormalization ==
    Just("load") =>
        \A m \in MonthSet : \A t \in TableNames :
            LET file == csv[m][t]
                df   == TableOf(t, m)
            IN  /\ file.cols \subseteq df.cols
                /\ Len(df.rows) = Len(file.rows)
                /\ \A i \in Indices(file) : \A c \in file.cols :
                      LET raw == file.rows[i][c]
                          v   == df.rows[i][c]
                      IN  IF c \in columns_to_standardize
                          THEN /\ raw # NaNText => IsNormalizedFrom(raw, v)
                               /\ Standardize(v) = v
                          ELSE IF c = "GuideAvailability" /\ raw = ""
                               THEN v = NaNSlot
                               ELSE v = raw

\* a guide name written 'AN' in the file has been loaded as An, next to its id as read
C21_Witness ==
    /\ Just("load")
    /\ \E i \in Indices(guides["03"]) :
          /\ csv["03"]["guides"].rows[i]["GuideName"] = TxtAnQuoted
          /\ guides["03"].rows[i]["GuideName"] = <<"A", "n">>
          /\ guides["03"].rows[i]["id"] = csv["03"]["guides"].rows[i]["id"]

\* the three aggregations of month m, run on the tables as they are now
AvailableDaysAgain(m) ==
    AvailableDays(ValidAvail(MergeLeft(guides[m], availability[m], "id", "GuideID")))

WithOperatingDays(t) ==
    WithColumn(t, "Tours_Operating_Days",
               [i \in 1..Len(t.rows) |-> ToursOperatingDays(t.rows[i])])

LocationTotalsAgain(m) == LocationTotals(WithOperatingDays(tours[m]))

SlotCountsAgain(m) ==
    SlotCounts(ActiveTours(WithOperatingDays(
        WithColumn(tours[m], "TimeSlot",
                   [i \in 1..Len(tours[m].rows) |-> TimeSlot(tours[m].rows[i])]))))

TopSlotAgain(m) ==
    LET top == TopSlot(SlotCountsAgain(m))
    IN  WithColumn(top, "Label", [i \in 1..Len(top.rows) |-> Label(top.rows[i])])

\* C22: running availableDaysPerGuide, operatingDaysByLocation or
\* dominantTimeSlotByLocation again on the loaded tables gives the result of the first
\* run, also once the tours table carries the columns the first run wrote into it.
C22_AggregationsAreIdempotent ==
    \A m \in MonthSet :
        /\ Done("5", m) => AvailableDaysAgain(m) = available_days_per_guide[m]
        /\ Done("10", m) => LocationTotalsAgain(m) = location_totals[m]
        /\ Done("11", m) =>
              /\ SlotCountsAgain(m) = slot_counts[m]
              /\ TopSlotAgain(m) = top_slot[m]

\* the tours table of March carries both derived columns, and the three results of
\* March are not empty
C22_Witness ==
    /\ Done("11", "03")
    /\ {"Tours_Operating_Days", "TimeSlot"} \subseteq tours["03"].cols
    /\ \E i \in 1..Len(location_totals["03"]) : location_totals["03"][i].val > 0
    /\ top_slot["03"].rows # <<>>
    /\ available_days_per_guide["03"] # <<>>

\* C23: once every join and metric has been computed, each period's bookings, tours,
\* guides, availability and skills tables hold exactly the rows and columns the loader
\* returned.
C23_LoadedTablesAreReadOnly ==
    Finished =>
        \A m \in MonthSet : \A t \in TableNames : TableOf(t, m) = load_month_data(m)[t]

\* the single-period results of month m, computed from the five files of m alone
OwnBookingsTours(m) ==
    MergeLeft(LoadTable(csv[m]["bookings"]), LoadTable(csv[m]["tours"]), "TourID", "id")

OwnBookingsMerged(m) ==
    rename_cols(MergeLeft(OwnBookingsTours(m), LoadTable(csv[m]["guides"]), "GuideID", "id"))

OwnAvailableDays(m) ==
    AvailableDays(ValidAvail(MergeLeft(LoadTable(csv[m]["guides"]),
                                       LoadTable(csv[m]["availability"]), "id", "GuideID")))

OwnOccupiedDays(m) == OccupiedDays(OwnBookingsMerged(m))

OwnSkillsNamed(m) ==
    MergeLeft(LoadTable(csv[m]["skills"]), LoadTable(csv[m]["guides"]), "GuideID", "id")

OwnSlotCounts(m) ==
    LET t == LoadTable(csv[m]["tours"])
    IN  SlotCounts(ActiveTours(WithOperatingDays(
            WithColumn(t, "TimeSlot", [i \in 1..Len(t.rows) |-> TimeSlot(t.rows[i])]))))

OwnTopSlot(m) ==
    LET top == TopSlot(OwnSlotCounts(m))
    IN  WithColumn(top, "Label", [i \in 1..Len(top.rows) |-> Label(top.rows[i])])

\* C24: every single-period result of a period is determined by that period's own five
\* tables; whatever the other periods' tables are, it is the value computed from its own.
C24_PeriodIndependence ==
    /\ Just("1") => top_tours = Head10(ValueCounts(OwnBookingsTours(JustMonth), "TourName"))
    /\ Just("2") =>
          daily_bookings =
              SortIndex(ValueCounts(LoadTable(csv[JustMonth]["bookings"]), "BookingDate"))
    /\ \A m \in MonthSet :
          /\ Done("3", m) =>
                top_guides[m] = Head10(ValueCounts(OwnBookingsMerged(m), "GuideName"))
          /\ Done("5", m) => available_days_per_guide[m] = OwnAvailableDays(m)
          /\ Done("6", m) => not_available[m] = NotAvailable(m, OwnAvailableDays(m))
          /\ Done("7", m) => occupied_days[m] = OwnOccupiedDays(m)
          /\ Done("8", m) =>
                occupancy_table[m] = OccupancyTable(OwnOccupiedDays(m), OwnAvailableDays(m))
          /\ Done("9", m) =>
                top_skilled_guides[m] = Head10(ValueCounts(OwnSkillsNamed(m), "GuideName"))
          /\ Done("10", m) =>
                location_totals[m] = LocationTotals(WithOperatingDays(LoadTable(csv[m]["tours"])))
          /\ Done("11", m) => top_slot[m] = OwnTopSlot(m)

\* a finished run in which March and April have different files and different results
C24_Witness ==
    /\ Finished
    /\ csv["03"] = PlainFiles
    /\ csv["04"] # PlainFiles
    /\ top_guides["03"] # top_guides["04"]
    /\ available_days_per_guide["03"] # available_days_per_guide["04"]
    /\ location_totals["03"] # location_totals["04"]
    /\ top_slot["03"] # top_slot["04"]
    /\ top_guides["03"] # <<>>
    /\ top_slot["03"].rows # <<>>

Rotate(s, k) == [i \in 1..Len(s) |-> s[((i + k - 1) % Len(s)) + 1]]

\* the rows of a table in other orders: each rotation, forwards and backwards
Rearranged(rows) ==
    {Rotate(rows, k) : k \in 1..Len(rows)} \cup {Reverse(Rotate(rows, k)) : k \in 1..Len(rows)}

\* the dominant slots of the tours file of month m with its rows in the order given
TopSlotOfRows(m, rows) ==
    LET t   == LoadTable([cols |-> csv[m]["tours"].cols, rows |-> rows])
        top == TopSlot(SlotCounts(ActiveTours(WithOperatingDays(
                   WithColumn(t, "TimeSlot",
                              [i \in 1..Len(t.rows) |-> TimeSlot(t.rows[i])])))))
    IN  WithColumn(top, "Label", [i \in 1..Len(top.rows) |-> Label(top.rows[i])])

\* C25: the slot chosen for a location, also among slots that tie for the highest count,
\* depends on which tours the table holds and not on the order of its rows.
C25_TieBreakIgnoresRowOrder ==
    Just("11") =>
        \A rows \in Rearranged(csv[JustMonth]["tours"].rows) :
            TopSlotOfRows(JustMonth, rows) = top_slot[JustMonth]

\* two slots of one location tie for the highest count, and one of them has been chosen
C25_Witness ==
    /\ Just("11")
    /\ \E r \in RowsOf(top_slot[JustMonth]) :
          \E q \in RowsOf(slot_counts[JustMonth]) :
              /\ q["TourLocation"] = r["TourLocation"]
              /\ q["TimeSlot"] # r["TimeSlot"]
              /\ q["Count"] = r["Count"]

OccupancyNames(m) == {occupancy_table[m][i].GuideName : i \in 1..Len(occupancy_table[m])}

\* C26: when notAvailableDays, occupancyStats and the combiner read a month's
\* available-days series it is the full series, one entry for every guide name with
\* availability, and no such guide is missing from the three results.
C26_FullSeriesIsRead ==
    /\ (At("6") \/ At("8")) =>
          Keys(available_days_per_guide[Script[pc].m]) = NamesWithDays(Script[pc].m)
    /\ At("5.5") =>
          \A m \in MonthSet : Keys(available_days_per_guide[m]) = NamesWithDays(m)
    /\ \A m \in MonthSet :
          /\ Done("6", m) => Keys(not_available[m]) = NamesWithDays(m)
          /\ Done("8", m) =>
                /\ NamesWithDays(m) \subseteq OccupancyNames(m)
                /\ \A i \in 1..Len(occupancy_table[m]) :
                      occupancy_table[m][i].GuideName \in NamesWithDays(m) =>
                          occupancy_table[m][i].AvailableDays # NaNInt
          /\ Done("5.5", "all") =>
                NamesWithDays(m) \subseteq {r["GuideName"] : r \in RowsOf(merged)}

\* more than ten guides have availability in March, and the three results have an entry
\* for each of them
C26_Witness ==
    /\ Done("8", "03")
    /\ Cardinality(NamesWithDays("03")) > TopN
    /\ Len(not_available["03"]) = Cardinality(NamesWithDays("03"))
    /\ Len(occupancy_table["03"]) >= Cardinality(NamesWithDays("03"))
    /\ Len(merged.rows) >= Cardinality(NamesWithDays("03"))

\* C27: the Bookings-Tours join and the Bookings-Tours-Guides join have one row per
\* booking, whatever the tours and guides tables are.
C27_EachBookingOnce ==
    \A m \in MonthSet :
        /\ Done("bookings_tours", "all") =>
              Len(bookings_tours[m].rows) = Len(bookings[m].rows)
        /\ Done("bookings_merged", "all") =>
              Len(bookings_merged[m].rows) = Len(bookings[m].rows)

\* the names of the roster of month m under which no record with a slot is filed
NamesWithoutDays(m) == GuideNames(m) \ NamesWithDays(m)

\* C28: a guide of the roster without a non-empty availability record in the period has
\* no entry in availableDaysPerGuide or notAvailableDays, and has a row in the combined
\* table, with 0 for the period, only when it has availability in another period.
C28_UnavailableGuideIsAbsent ==
    \A m \in MonthSet : \A n \in NamesWithoutDays(m) :
        /\ Done("4", m) => ~HasKey(available_days_per_guide[m], n)
        /\ Done("6", m) => ~HasKey(not_available[m], n)
        /\ Done("5.5", "all") =>
              IF \E k \in MonthSet : n \in NamesWithDays(k)
              THEN \E r \in RowsOf(merged) : r["GuideName"] = n /\ r[PeriodColumns[m]] = 0
              ELSE \A r \in RowsOf(merged) : r["GuideName"] # n

\* in March one guide has only a record with an empty slot and is in the combined table
\* with 0 for March, another has no availability in any period and is in none of the
\* results
C28_Witness ==
    /\ Done("6", "03")
    /\ \E n \in NamesWithoutDays("03") :
          /\ \E i \in Indices(availability["03"]) : \E g \in RowsOf(guides["03"]) :
                /\ g["GuideName"] = n
                /\ availability["03"].rows[i]["GuideID"] = g["id"]
                /\ availability["03"].rows[i]["GuideAvailability"] = NaNSlot
          /\ \E r \in RowsOf(merged) : r["GuideName"] = n /\ r["March"] = 0 /\ r["Total"] > 0
    /\ \E n \in NamesWithoutDays("03") : \A r \in RowsOf(merged) : r["GuideName"] # n
    /\ available_days_per_guide["03"] # <<>>

\* the rows of a joined table whose column c is not null
NamedRows(df, c) == {i \in Indices(df) : df.rows[i][c] # NaNText}

\* counts is the count of each non-null value of column c of the joined table df
CountsNamedRows(counts, df, c) ==
    /\ ~HasKey(counts, NaNText)
    /\ UniqueKeys(counts)
    /\ SumVals(counts) = Cardinality(NamedRows(df, c))
    /\ SumVals(counts) <= Len(df.rows)

\* C29: the counts behind topBookedTours and topActiveGuides have no entry for the null
\* name and, before the cut to ten entries, sum to the number of joined rows whose
\* TourName (GuideName) is not null, which is at most the number of joined rows; the
\* result is the first ten of those counts.
C29_NullNamesAreNotCounted ==
    /\ Just("1") =>
          LET df == bookings_tours[JustMonth]
          IN  /\ CountsNamedRows(ValueCounts(df, "TourName"), df, "TourName")
              /\ top_tours = Head10(ValueCounts(df, "TourName"))
              /\ ~HasKey(top_tours, NaNText)
              /\ Len(ValueCounts(df, "TourName")) <= TopN =>
                    SumVals(top_tours) = Cardinality(NamedRows(df, "TourName"))
    /\ Just("3") =>
          LET df == bookings_merged[JustMonth]
          IN  /\ CountsNamedRows(ValueCounts(df, "GuideName"), df, "GuideName")
              /\ top_guides[JustMonth] = Head10(ValueCounts(df, "GuideName"))
              /\ ~HasKey(top_guides[JustMonth], NaNText)
              /\ Len(ValueCounts(df, "GuideName")) <= TopN =>
                    SumVals(top_guides[JustMonth]) = Cardinality(NamedRows(df, "GuideName"))

\* a booking without a tour and without a guide is in both joins of March next to a
\* booking that has both, and the counts of March leave it out
C29_Witness ==
    /\ Just("3")
    /\ JustMonth = "03"
    /\ \E r \in RowsOf(bookings_merged["03"]) :
          r["TourName"] = NaNText /\ r["GuideName"] = NaNText
    /\ top_guides["03"] # <<>>
    /\ SumVals(top_guides["03"]) < Len(bookings_merged["03"].rows)
    /\ SumVals(Head10(ValueCounts(bookings_tours["03"], "TourName")))
           < Len(bookings_tours["03"].rows)

TxtNanTitled == <<"N", "a", "n">>

\* the rows of a file of month m whose normalized text column c is missing
MissingIn(m, t, c) ==
    {i \in Indices(csv[m][t]) : c \in csv[m][t].cols /\ csv[m][t].rows[i][c] = NaNText}

\* C30: a missing value of a normalized text column is loaded as the text "Nan"; a guide
\* whose name is missing is counted by availableDaysPerGuide under the name "Nan", with
\* the days of every such guide, and is not left out as a null name would be.
C30_MissingTextBecomesNan ==
    /\ Done("load", "all") =>
          \A m \in MonthSet : \A t \in TableNames : \A c \in columns_to_standardize :
              \A i \in MissingIn(m, t, c) : TableOf(t, m).rows[i][c] = TxtNanTitled
    /\ \A m \in MonthSet :
          Done("5", m) =>
              /\ ~HasKey(available_days_per_guide[m], NaNText)
              /\ \A i \in MissingIn(m, "guides", "GuideName") :
                    (\E a \in RowsOf(availability[m]) :
                        /\ a["GuideID"] = guides[m].rows[i]["id"]
                        /\ a["GuideAvailability"] # NaNSlot)
                    => /\ HasKey(available_days_per_guide[m], TxtNanTitled)
                       /\ ValueAt(available_days_per_guide[m], TxtNanTitled)
                              = Cardinality(AvailabilityDaysOf(m, TxtNanTitled))

\* a guide whose name is missing in the file has an availability record and is listed
\* under Nan with one day
C30_Witness ==
    /\ \E m \in MonthSet :
          /\ Done("5", m)
          /\ \E i \in MissingIn(m, "guides", "GuideName") :
                \E a \in RowsOf(availability[m]) :
                    a["GuideID"] = guides[m].rows[i]["id"] /\ a["GuideAvailability"] # NaNSlot
          /\ HasKey(available_days_per_guide[m], TxtNanTitled)
          /\ ValueAt(available_days_per_guide[m], TxtNanTitled) = 1

============================================================================
